---- MODULE Spec2Model ----
(***************************************************************************)
(* The certificate pipeline of the ACM certificate backend: the record     *)
(* store (certificates, workshops, templates), the generated files on      *)
(* storage, generate_single_certificate, the generation of a workshop,     *)
(* send_certificate_email, send_bulk_certificate_emails and its trigger,   *)
(* the zip download, the bulk creation and the drawing of the labels.      *)
(*                                                                         *)
(* A call of one of these functions is a process with a program counter    *)
(* and the locals of the Python function; its blocking points (compose +   *)
(* SMTP, the re-read after an attempt, the pause between two passes of a   *)
(* loop) are separate steps.                                               *)
(*   Spec      serves the requests one at a time; storage cleanup may      *)
(*             happen anywhere.                                            *)
(*   SpecConc  lets NumProcs e-mail calls and deletes overlap.             *)
(*   SpecGen   is the administration and the generation endpoints, with    *)
(*             other requests between the passes of a bulk generation.     *)
(*   SpecBatch is one bulk send over a workshop larger than a batch.       *)
(*   SpecCreate is the creation endpoints with bulk_create_certificates.   *)
(*   SpecCode  is the codes of the certificates as text, their creation   *)
(*             and the public lookups by code.                             *)
(*   SpecNoForce is the e-mail endpoints used with force off only.         *)
(*   SpecTpl   is the saving and deleting of templates with the            *)
(*             generation endpoints, over workshops of equal titles.       *)
(*   SpecLabel is the drawing of one label: its position, its font size    *)
(*             and _get_font.                                              *)
(***************************************************************************)
EXTENDS Integers, Sequences, FiniteSets, TLC

\* ------------------------------------------------------------------ bounds
NumCerts     == 2      \* certificate ids ever issued
NumWorkshops == 1      \* workshop ids ever issued
NumProcs     == 2      \* dispatcher call slots
MaxClock     == 1      \* the clock runs from 0 to MaxClock
LongDetail   == 2500   \* length of the description str(e) of a raised exception
PathLen      == 34     \* length of "certificates/<code>.png"
Extra        == 1      \* certificates of a large workshop beyond one batch
PoolSent     == 1      \* certificates of a large workshop already SENT
MaxFontSize  == 8      \* placeholder font sizes are -1..MaxFontSize, 16 and 24
MaxQuarters  == 8      \* image heights are 125, 250, ..., 125 * MaxQuarters
NumEvents    == 2      \* workshops of the template administration
MaxCodeLen   == 2      \* characters of a certificate code
MaxStored    == 2      \* certificates whose code is kept as text
MaxRows      == 3      \* rows of a bulk creation

\* ------------------------------------------------------- program constants
MAX_BATCH_SIZE == 1000
MaxErrorLen    == 2000
LenFileNotFound == 16      \* len("File not found: ")
LenAuthFailed   == 28      \* len("SMTP authentication failed: ")
LenSmtpError    == 12      \* len("SMTP error: ")
LenUnexpected   == 18      \* len("Unexpected error: ")
LenNotConfigured == 74     \* len of the fixed configuration message
RefHeight       == 500     \* scale_factor = h / 500

CertIds     == 1..NumCerts
WorkshopIds == 1..NumWorkshops
Procs       == 1..NumProcs
\* when requests are served one at a time one slot holds the call in progress
SeqProcs    == {1}
Titles      == {"A", "B"}    \* values of Certificate.workshop_name
WorkshopTitles == {"A"}      \* values of Workshop.title
EventIds    == 1..NumEvents
\* values of TemplateCreate.image_url and of its two placeholders taken together
Images      == {"img1", "img2"}
Placements  == {"p1", "p2"}
\* where one template per workshop is enough, the one an administrator saves
FirstImages     == {"img1"}
FirstPlacements == {"p1"}
DetailLens  == {LongDetail}

\* the environments the service is started with: all of host, user name and
\* password set, or the password left empty
SettingsInputs ==
    {[EMAIL_HOST |-> TRUE, EMAIL_USERNAME |-> TRUE, EMAIL_PASSWORD |-> TRUE],
     [EMAIL_HOST |-> TRUE, EMAIL_USERNAME |-> TRUE, EMAIL_PASSWORD |-> FALSE]}

Min(a, b) == IF a <= b THEN a ELSE b
Max(a, b) == IF a >= b THEN a ELSE b

\* ------------------------------------------------------------ record store
NoTime  == -1                              \* a NULL DateTime column
NoPath  == << >>                           \* a NULL file_path column
NoError == [kind |-> "NULL", len |-> 0]    \* a NULL email_error column

\* Certificate.code is unique; certificate k has code k
Code(c) == c
\* f"certificates/{cert.code}.png"
RelPath(code) == <<"certificates/", code, ".png">>

Fields == {"workshop_name", "status", "file_path",
           "email_status", "email_sent_at", "email_error"}

NoCert == [workshop_name |-> "", status |-> "ABSENT", file_path |-> NoPath,
           email_status |-> "", email_sent_at |-> NoTime, email_error |-> NoError]

\* (variant: a new record counts as delivered)
NewCertificateSent(wname) ==
    [workshop_name |-> wname, status |-> "PENDING", file_path |-> NoPath,
     email_status |-> "SENT", email_sent_at |-> NoTime, email_error |-> NoError]
\* models.Certificate column defaults
NewCertificate(wname) ==
    [workshop_name |-> wname, status |-> "PENDING", file_path |-> NoPath,
     email_status |-> "NOT_SENT", email_sent_at |-> NoTime, email_error |-> NoError]

NoWorkshop == [title |-> ""]

\* A certificate_templates row.  The rows of a workshop are kept in the order
\* of their created_at, oldest first; of updated_at it is kept whether it is
\* the latest of the workshop's templates (updated_last).
NoTemplate ==
    [event_id |-> 0, image_url |-> "", placeholders |-> "", updated_last |-> FALSE]
TemplateRow(w, u, v) ==
    [event_id |-> w, image_url |-> u, placeholders |-> v, updated_last |-> TRUE]

VARIABLES
    cert,          \* certificates table: id -> row, NoCert when there is no row
    nextCert,      \* next fresh certificate id (uuid4 ids are never reused)
    workshop,      \* workshops table: id -> row, NoWorkshop when there is no row
    nextWorkshop,  \* next fresh workshop id
    templates,     \* certificate_templates table: workshop id -> its rows
    files,         \* relative paths that exist under MEDIA_DIR
    settings,      \* which of the EMAIL_* settings are non-empty
    now,           \* datetime.utcnow()
    proc,          \* dispatcher calls in progress
    pool,          \* per workshop, its certificates that are kept by number
                   \* only: GENERATED with the file present, either not SENT
                   \* (NOT_SENT or FAILED) or SENT
    label,         \* the text label _render_certificate is drawing
    codes          \* the code column of the certificates table as text, and
                   \* the call of a creation or public lookup in progress

\* A label being drawn: which of the two, its placeholder columns of the
\* template (x, y, fontSize, family), the size of the downloaded image, the
\* position name_x/name_y in hundredths of a pixel (px, py), the font size
\* passed to _get_font, and in _get_font the step of the fallback chain that
\* is tried next (step) and what the function ended with (font).
NoLabel ==
    [pc |-> "none", which |-> "", x |-> 0, y |-> 0, fontSize |-> 0, family |-> "",
     w |-> 0, h |-> 0, px |-> 0, py |-> 0, size |-> 0, step |-> 0, font |-> "none"]

\* The codes stored and a call on them: op is the function, arg the code it
\* was given (<< >> for none), found the code of the row it created or found,
\* ret what it answered.
NoCodes ==
    [stored |-> {}, pc |-> "idle", op |-> "none", arg |-> << >>, found |-> << >>,
     ret |-> "none"]

vars == <<cert, nextCert, workshop, nextWorkshop, templates, files, settings, now, proc, pool, label, codes>>

Live(c) == cert[c] # NoCert

\* ------------------------------------------------------------- error texts
PrefixLen(kind) ==
    CASE kind = "File not found"            -> LenFileNotFound
      [] kind = "SMTP authentication failed" -> LenAuthFailed
      [] kind = "SMTP error"                 -> LenSmtpError
      [] kind = "Unexpected error"           -> LenUnexpected
      [] OTHER                               -> 0

\* f"<kind>: {detail}"
Msg(kind, detailLen) == [kind |-> kind, len |-> PrefixLen(kind) + detailLen]

NotConfiguredMsg == [kind |-> "SMTP not configured", len |-> LenNotConfigured]

\* (variant: the text is stored untruncated)
TruncateNone(m) == m
\* error_msg[:2000]
Truncate(m) == [m EXCEPT !.len = Min(m.len, MaxErrorLen)]

\* (variant: a failure puts the record back in the queue of unsent ones)
MarkFailedRequeue(o, m) ==
    [o EXCEPT !.email_status = "NOT_SENT", !.email_error = Truncate(m)]
\* _mark_failed: the attribute values it sets on the loaded object
MarkFailed(o, m) == [o EXCEPT !.email_status = "FAILED", !.email_error = Truncate(m)]

\* (variant: the success branch forgets cert.email_error = None)
MarkSentKeepError(o, t) == [o EXCEPT !.email_status = "SENT", !.email_sent_at = t]
\* the success branch of send_certificate_email
MarkSent(o, t) ==
    [o EXCEPT !.email_status = "SENT", !.email_sent_at = t, !.email_error = NoError]

\* db.commit() of an object loaded as `loaded` and now holding `new`: the UPDATE
\* writes the columns whose value differs from the loaded one
Changed(loaded, new) == {f \in Fields : new[f] # loaded[f]}
Written(row, loaded, new) ==
    [f \in Fields |-> IF f \in Changed(loaded, new) THEN new[f] ELSE row[f]]
\* the UPDATE of a row that is gone raises (StaleDataError)
CommitRaises(c, loaded, new) == Changed(loaded, new) # {} /\ ~Live(c)
Commit(c, loaded, new) ==
    IF Changed(loaded, new) = {} \/ ~Live(c) THEN cert
    ELSE [cert EXCEPT ![c] = Written(cert[c], loaded, new)]

\* --------------------------------------------------- send_certificate_email
\* (variant: `or` for `and`)
IsEmailConfiguredAny ==
    settings.EMAIL_HOST \/ settings.EMAIL_USERNAME \/ settings.EMAIL_PASSWORD
\* bool(EMAIL_HOST and EMAIL_USERNAME and EMAIL_PASSWORD)
IsEmailConfigured ==
    settings.EMAIL_HOST /\ settings.EMAIL_USERNAME /\ settings.EMAIL_PASSWORD

\* (variant: without the idempotency guard)
GuardNoSkip(o, fileThere, force) ==
    IF o = NoCert THEN "not_found"
    ELSE IF o.status # "GENERATED" THEN "not_generated"
    ELSE IF o.file_path = NoPath THEN "no_path"
    ELSE IF ~fileThere THEN "file_missing"
    ELSE IF ~IsEmailConfigured THEN "not_configured"
    ELSE "go"
\* (variant: the configuration guard comes before the idempotency guard)
GuardConfigFirst(o, fileThere, force) ==
    IF o = NoCert THEN "not_found"
    ELSE IF o.status # "GENERATED" THEN "not_generated"
    ELSE IF o.file_path = NoPath THEN "no_path"
    ELSE IF ~fileThere THEN "file_missing"
    ELSE IF ~IsEmailConfigured THEN "not_configured"
    ELSE IF o.email_status = "SENT" /\ ~force THEN "already_sent"
    ELSE "go"
\* the guards of send_certificate_email, in source order
Guard(o, fileThere, force) ==
    IF o = NoCert THEN "not_found"
    ELSE IF o.status # "GENERATED" THEN "not_generated"
    ELSE IF o.file_path = NoPath THEN "no_path"
    ELSE IF ~fileThere THEN "file_missing"
    ELSE IF o.email_status = "SENT" /\ ~force THEN "already_sent"
    ELSE IF ~IsEmailConfigured THEN "not_configured"
    ELSE "go"

\* the except clauses, in source order: the first class the exception is an
\* instance of labels the stored text
IsInstance(exc, class) ==
    \/ exc = class
    \/ class = "Exception"
    \/ class = "SMTPException" /\ exc = "SMTPAuthenticationError"
Handlers == << <<"SMTPAuthenticationError", "SMTP authentication failed">>,
               <<"SMTPException", "SMTP error">>,
               <<"FileNotFoundError", "File not found">>,
               <<"Exception", "Unexpected error">> >>
RECURSIVE FirstHandler(_, _)
FirstHandler(exc, i) ==
    IF i > Len(Handlers) THEN "uncaught"
    ELSE IF IsInstance(exc, Handlers[i][1]) THEN Handlers[i][2]
    ELSE FirstHandler(exc, i + 1)
Label(exc) == FirstHandler(exc, 1)

\* certificates kept by number: how many are not SENT, how many are SENT
NoRest == [unsent |-> 0, sent |-> 0]

\* A call: its position and its locals.  op is the function called; cid, obj
\* and fileOk are certificate_id, the loaded `cert` and png_path.exists(); exc is
\* what the try block ended with; ret is what send_certificate_email returned.
\* For send_bulk_certificate_emails: wid, the list `certs` (cands), the loop
\* position k, the session's copies of the candidates as loaded by the query
\* (snap) until a commit expires them (expired), the candidates kept by number
\* that the loop has not reached yet (rest), and the four counters.
\* For generate_single_certificate and generate_certificates_for_workshop: path
\* is the value returned (NoPath for None), fetched the number of downloads of
\* a template image, wrote whether a PNG was saved, generated the counter;
\* onDisk notes whether certificates/<code>.png was on storage at the call,
\* tpl is the template passed to _render_certificate (NoTemplate when the
\* call, or the last pass of the loop, made no render).
\* For create_certificates_zip: entries, the certificates whose PNG is in the
\* archive.  For send_workshop_emails: total, the number it returns.  For
\* bulk_create_certificates: rows, the code of each input row (0 when the row
\* gives none), created, the certificates created, and errors, the numbers of
\* the rows reported.
IdleProc ==
    [pc |-> "idle", op |-> "none", cid |-> 0, force |-> FALSE, obj |-> NoCert,
     fileOk |-> FALSE, exc |-> "none", ret |-> "none",
     wid |-> 0, cands |-> << >>, k |-> 0, snap |-> [c \in CertIds |-> NoCert],
     expired |-> FALSE, total |-> 0, sent |-> 0, skipped |-> 0, failed |-> 0,
     path |-> NoPath, fetched |-> 0, wrote |-> FALSE, generated |-> 0,
     rest |-> NoRest, entries |-> {}, rows |-> << >>, created |-> << >>,
     errors |-> << >>, onDisk |-> FALSE, tpl |-> NoTemplate]

AllIdle == \A p \in Procs : proc[p].pc = "idle"

FileThere(o) == o # NoCert /\ o.file_path # NoPath /\ o.file_path \in files

\* (variant: a record that is not generated yet is marked FAILED too)
GuardObjMarkPending(o, g) ==
    CASE g = "file_missing"   -> MarkFailed(o, Msg("File not found", PathLen))
      [] g = "not_configured" -> MarkFailed(o, NotConfiguredMsg)
      [] g = "not_generated"  -> MarkFailed(o, Msg("File not found", PathLen))
      [] OTHER                -> o
\* (variant: a missing file is reported but not recorded)
GuardObjNoFileMark(o, g) ==
    CASE g = "not_configured" -> MarkFailed(o, NotConfiguredMsg)
      [] OTHER                -> o
\* the loaded object after the guard stage
GuardObj(o, g) ==
    CASE g = "file_missing"   -> MarkFailed(o, Msg("File not found", PathLen))
      [] g = "not_configured" -> MarkFailed(o, NotConfiguredMsg)
      [] OTHER                -> o
\* (variant: "nothing to send yet" is reported as a success)
GuardRetLenient(g) == IF g \in {"already_sent", "not_generated"} THEN "true" ELSE "false"
\* what the guard stage returns
GuardRet(g) == IF g = "already_sent" THEN "true" ELSE "false"

\* send_certificate_email(db, c, force) up to the try block
SendBegin(p, c, force) ==
    /\ proc[p].pc = "idle"
    /\ LET o == cert[c]
           ok == FileThere(o)
           g == Guard(o, ok, force)
           base == [IdleProc EXCEPT !.op = "send", !.cid = c, !.force = force,
                                    !.obj = o, !.fileOk = ok]
       IN  /\ cert' = Commit(c, o, GuardObj(o, g))
           /\ proc' = [proc EXCEPT ![p] =
                 IF g = "go" THEN [base EXCEPT !.pc = "sending"]
                 ELSE [base EXCEPT !.pc = "done", !.ret = GuardRet(g)]]
    /\ UNCHANGED <<nextCert, workshop, nextWorkshop, templates, files, settings, now, pool, label, codes>>

TransportOutcomes == {"ok", "SMTPAuthenticationError", "SMTPException", "Exception"}

\* _build_email_message (reads the PNG) and _smtp_send
SendCompose(p) ==
    /\ proc[p].pc = "sending"
    /\ \E x \in TransportOutcomes :
          proc' = [proc EXCEPT ![p].pc = "commit",
                               ![p].exc = IF proc[p].obj.file_path \in files
                                          THEN x ELSE "FileNotFoundError"]
    /\ UNCHANGED <<cert, nextCert, workshop, nextWorkshop, templates, files, settings, now, pool, label, codes>>

\* the locals of one loop pass go out of scope
NextPass(q) ==
    [q EXCEPT !.pc = "loop", !.k = q.k + 1, !.cid = 0, !.obj = NoCert,
              !.fileOk = FALSE, !.exc = "none", !.ret = "none"]

\* an exception leaves send_bulk_certificate_emails
BulkRaise(q) ==
    [IdleProc EXCEPT !.pc = "done", !.op = q.op, !.wid = q.wid, !.force = q.force,
                     !.ret = "raise"]

\* (variant: a success is not counted)
AfterSendUncounted(q, r) ==
    IF q.op = "send" THEN [q EXCEPT !.pc = "done", !.ret = r]
    ELSE IF r = "raise" THEN BulkRaise(q)
    ELSE IF r = "true" THEN NextPass(q)
    ELSE [q EXCEPT !.pc = "classify", !.ret = r]

\* where a call of send_certificate_email that returned r continues: a single
\* send is done; the bulk loop counts a success and sleeps, or goes on to
\* re-read the record after a non-success
AfterSend(q, r) ==
    IF q.op = "send" THEN [q EXCEPT !.pc = "done", !.ret = r]
    ELSE IF r = "raise" THEN BulkRaise(q)
    ELSE IF r = "true" THEN NextPass([q EXCEPT !.sent = q.sent + 1])
    ELSE [q EXCEPT !.pc = "classify", !.ret = r]

\* db.commit() expires every object of the session
Expire(q) == [q EXCEPT !.expired = TRUE, !.snap = [c \in CertIds |-> NoCert]]

\* the success branch or the matching except clause, with its commit
SendCommit(p) ==
    /\ proc[p].pc = "commit"
    /\ \E d \in DetailLens :
         LET c == proc[p].cid
             o == proc[p].obj
             new == IF proc[p].exc = "ok" THEN MarkSent(o, now)
                    ELSE MarkFailed(o, Msg(Label(proc[p].exc), d))
             r == IF CommitRaises(c, o, new) THEN "raise"
                  ELSE IF proc[p].exc = "ok" THEN "true" ELSE "false"
         IN  /\ cert' = Commit(c, o, new)
             /\ proc' = [proc EXCEPT ![p] = AfterSend(Expire(proc[p]), r)]
    /\ UNCHANGED <<nextCert, workshop, nextWorkshop, templates, files, settings, now, pool, label, codes>>

\* --------------------------------------------- send_bulk_certificate_emails
Range(s) == {s[i] : i \in 1..Len(s)}

\* (variant: the query without the workshop filter)
EligibleAnyWorkshop(w, force) ==
    {c \in CertIds : /\ Live(c)
                     /\ cert[c].status = "GENERATED"
                     /\ (force \/ cert[c].email_status # "SENT")}
\* (variant: the query takes the records never tried, not the failed ones)
EligibleUntried(w, force) ==
    {c \in CertIds : /\ Live(c)
                     /\ cert[c].workshop_name = workshop[w].title
                     /\ cert[c].status = "GENERATED"
                     /\ (force \/ cert[c].email_status = "NOT_SENT")}
\* (variant: the query without the `if not force` filter)
EligibleAll(w, force) ==
    {c \in CertIds : /\ Live(c)
                     /\ cert[c].workshop_name = workshop[w].title
                     /\ cert[c].status = "GENERATED"}
\* the rows the query of send_bulk_certificate_emails matches
Eligible(w, force) ==
    {c \in CertIds : /\ Live(c)
                     /\ cert[c].workshop_name = workshop[w].title
                     /\ cert[c].status = "GENERATED"
                     /\ (force \/ cert[c].email_status # "SENT")}

\* .limit(n).all() of a query without ORDER BY: any n of the rows, in any order
Limited(S, n) ==
    {s \in UNION {[1..m -> S] : m \in {Min(Cardinality(S), n)}} :
        \A i, j \in 1..Len(s) : i # j => s[i] # s[j]}

\* (variant: the query without .limit)
BatchSizeUncapped(matching) == matching
\* the number of rows of query.limit(MAX_BATCH_SIZE).all() when `matching` rows
\* match the filter
BatchSize(matching) == Min(matching, MAX_BATCH_SIZE)

\* the rows send_workshop_emails counts
Counted(w) ==
    {c \in CertIds : /\ Live(c)
                     /\ cert[c].workshop_name = workshop[w].title
                     /\ cert[c].status = "GENERATED"}

\* POST /admin/send-workshop-emails/{w}: 404 for an unknown workshop; else the
\* count is taken, _bg_send_workshop_emails(w, force) is added to the
\* background tasks and the response is returned
TriggerBulk(p, w, force) ==
    /\ proc[p].pc = "idle"
    /\ proc' = [proc EXCEPT ![p] =
          IF workshop[w] = NoWorkshop
          THEN [IdleProc EXCEPT !.pc = "done", !.op = "send_workshop_emails", !.wid = w,
                                !.force = force, !.ret = "404"]
          ELSE [IdleProc EXCEPT !.pc = "queued", !.op = "send_workshop_emails", !.wid = w,
                                !.force = force,
                                !.total = Cardinality(Counted(w)) + pool[w].unsent
                                          + pool[w].sent]]
    /\ UNCHANGED <<cert, nextCert, workshop, nextWorkshop, templates, files, settings, now, pool, label, codes>>

\* the background task _bg_send_workshop_emails(w, force) of slot p is due
Scheduled(p, w, force) ==
    proc[p].pc = "queued" /\ proc[p].wid = w /\ proc[p].force = force

\* send_bulk_certificate_emails(db, w, force) up to the loop; the rows are the
\* certificates cs and, of those kept by number, u that are not SENT and the
\* rest that are SENT
BulkBegin(p, w, force) ==
    /\ proc[p].pc = "idle" \/ Scheduled(p, w, force)
    /\ IF workshop[w] = NoWorkshop
       THEN proc' = [proc EXCEPT ![p] =
                [IdleProc EXCEPT !.pc = "done", !.op = "bulk", !.wid = w, !.force = force]]
       ELSE LET E  == Eligible(w, force)
                pu == pool[w].unsent
                ps == IF force THEN pool[w].sent ELSE 0
                n  == BatchSize(Cardinality(E) + pu + ps)
            IN  \E j \in 0..Min(Cardinality(E), n), u \in 0..Min(pu, n) :
                  /\ n - j - u \in 0..ps
                  /\ \E cs \in Limited(E, j) :
                       proc' = [proc EXCEPT ![p] =
                        [IdleProc EXCEPT !.pc = "loop", !.op = "bulk", !.wid = w,
                                         !.force = force, !.cands = cs, !.k = 1,
                                         !.total = n,
                                         !.rest = [unsent |-> u, sent |-> n - j - u],
                                         !.snap = [c \in CertIds |->
                                             IF c \in Range(cs) THEN cert[c] ELSE NoCert]]]
    /\ UNCHANGED <<cert, nextCert, workshop, nextWorkshop, templates, files, settings, now, pool, label, codes>>

\* one pass through the head of the for loop: the in-loop SENT check, then
\* send_certificate_email up to its try block (its query finds the object the
\* session already holds)
BulkIter(p) ==
    /\ proc[p].pc = "loop"
    /\ LET q == proc[p] IN
       IF q.k > Len(q.cands)
       THEN /\ q.rest = NoRest
            /\ proc' = [proc EXCEPT ![p].pc = "done"]
            /\ cert' = cert
       ELSE LET c == q.cands[q.k]
                view == IF q.expired THEN cert[c] ELSE q.snap[c]
                o == IF Live(c) THEN view ELSE NoCert
                ok == FileThere(o)
                g == Guard(o, ok, q.force)
                new == GuardObj(o, g)
                b0 == [q EXCEPT !.cid = c, !.obj = o, !.fileOk = ok]
                base == IF g \in {"file_missing", "not_configured"} THEN Expire(b0) ELSE b0
            IN  IF q.expired /\ ~Live(c)
                THEN /\ proc' = [proc EXCEPT ![p] = BulkRaise(q)]
                     /\ cert' = cert
                ELSE IF view.email_status = "SENT" /\ ~q.force
                THEN /\ proc' = [proc EXCEPT ![p] = NextPass([q EXCEPT !.skipped = q.skipped + 1])]
                     /\ cert' = cert
                ELSE /\ cert' = Commit(c, o, new)
                     /\ proc' = [proc EXCEPT ![p] =
                           IF g = "go" THEN [base EXCEPT !.pc = "sending"]
                           ELSE AfterSend(base, GuardRet(g))]
    /\ UNCHANGED <<nextCert, workshop, nextWorkshop, templates, files, settings, now, pool, label, codes>>

\* the record counts after send_certificate_email on a certificate kept by
\* number: a success makes it SENT, a failure makes it FAILED
PoolAfter(pl, kind, r) ==
    CASE kind = "unsent" /\ r = "sent"   -> [unsent |-> pl.unsent - 1, sent |-> pl.sent + 1]
      [] kind = "sent"   /\ r = "failed" -> [unsent |-> pl.unsent + 1, sent |-> pl.sent - 1]
      [] OTHER                            -> pl

\* one pass of the for loop over a candidate kept by number: the in-loop check
\* (it is SENT only in a forced run), send_certificate_email, which succeeds or
\* fails (it fails when the transport is not configured), and the count
BulkIterPool(p) ==
    /\ proc[p].pc = "loop" /\ proc[p].op = "bulk"
    /\ proc[p].k > Len(proc[p].cands)
    /\ LET q == proc[p] IN
       \E kind \in {"unsent", "sent"}, r \in {"sent", "failed"} :
          /\ q.rest[kind] > 0
          /\ r = "sent" => IsEmailConfigured
          /\ pool' = [pool EXCEPT ![q.wid] = PoolAfter(pool[q.wid], kind, r)]
          /\ proc' = [proc EXCEPT ![p] =
                [q EXCEPT !.rest[kind] = @ - 1,
                          !.sent = IF r = "sent" THEN @ + 1 ELSE @,
                          !.failed = IF r = "failed" THEN @ + 1 ELSE @]]
    /\ UNCHANGED <<cert, nextCert, workshop, nextWorkshop, templates, files, settings, now, label, codes>>

\* (variant: the bucket is decided from the object as the attempt left it,
\* without db.refresh)
BulkClassifyStale(p) ==
    /\ proc[p].pc = "classify"
    /\ LET q == proc[p]
       IN  proc' = [proc EXCEPT ![p] =
              IF q.obj # NoCert /\ q.obj.email_status = "SENT"
              THEN NextPass([q EXCEPT !.skipped = q.skipped + 1])
              ELSE NextPass([q EXCEPT !.failed = q.failed + 1])]
    /\ UNCHANGED <<cert, nextCert, workshop, nextWorkshop, templates, files, settings, now, pool, label, codes>>
\* db.refresh(cert) after a non-success, and the bucket it decides
BulkClassify(p) ==
    /\ proc[p].pc = "classify"
    /\ LET q == proc[p]
           c == q.cid
       IN  proc' = [proc EXCEPT ![p] =
              IF ~Live(c) THEN BulkRaise(q)
              ELSE IF cert[c].email_status = "SENT"
                   THEN NextPass([q EXCEPT !.skipped = q.skipped + 1])
                   ELSE NextPass([q EXCEPT !.failed = q.failed + 1])]
    /\ UNCHANGED <<cert, nextCert, workshop, nextWorkshop, templates, files, settings, now, pool, label, codes>>

\* the call returns to its caller
Return(p) ==
    /\ proc[p].pc = "done"
    /\ proc' = [proc EXCEPT ![p] = IdleProc]
    /\ UNCHANGED <<cert, nextCert, workshop, nextWorkshop, templates, files, settings, now, pool, label, codes>>

\* ------------------------------------------------------------ other operations
CreateWorkshop(t) ==
    /\ AllIdle
    /\ nextWorkshop <= NumWorkshops
    /\ workshop' = [workshop EXCEPT ![nextWorkshop] = [title |-> t]]
    /\ nextWorkshop' = nextWorkshop + 1
    /\ UNCHANGED <<cert, nextCert, templates, files, settings, now, proc, pool, label, codes>>

\* the upsert of save_template on an existing row: the placeholders are
\* assigned; the commit writes the row, and with it updated_at, only when a
\* value differs
Updated(rows, i, v) ==
    IF rows[i].placeholders = v THEN rows
    ELSE [j \in DOMAIN rows |->
            IF j = i THEN [rows[j] EXCEPT !.placeholders = v, !.updated_last = TRUE]
            ELSE [rows[j] EXCEPT !.updated_last = FALSE]]
\* (variant: a new template is put before the older ones)
InsertedFirst(rows, w, u, v) ==
    <<TemplateRow(w, u, v)>> \o [j \in DOMAIN rows |-> [rows[j] EXCEPT !.updated_last = FALSE]]
\* a new row: created_at and updated_at are the time of the insert
Inserted(rows, w, u, v) ==
    Append([j \in DOMAIN rows |-> [rows[j] EXCEPT !.updated_last = FALSE]],
           TemplateRow(w, u, v))

\* save_template(w, data) with image_url u and placeholders v
SaveTemplate(w, u, v) ==
    /\ AllIdle
    /\ workshop[w] # NoWorkshop
    /\ LET rows == templates[w]
           existing == {i \in DOMAIN rows : rows[i].image_url = u}
       IN  IF existing # {}
           THEN \E i \in existing :
                    templates' = [templates EXCEPT ![w] = Updated(rows, i, v)]
           ELSE templates' = [templates EXCEPT ![w] = Inserted(rows, w, u, v)]
    /\ UNCHANGED <<cert, nextCert, workshop, nextWorkshop, files, settings, now, proc, pool, label, codes>>

\* delete_template(w, template_id) of the i-th row of workshop w
DeleteTemplate(w, i) ==
    /\ i \in DOMAIN templates[w]
    /\ templates' = [templates EXCEPT ![w] =
          SubSeq(@, 1, i - 1) \o SubSeq(@, i + 1, Len(@))]
    /\ UNCHANGED <<cert, nextCert, workshop, nextWorkshop, files, settings, now, proc, pool, label, codes>>

CreateCertificate(wname) ==
    /\ AllIdle
    /\ nextCert <= NumCerts
    /\ cert' = [cert EXCEPT ![nextCert] = NewCertificate(wname)]
    /\ nextCert' = nextCert + 1
    /\ UNCHANGED <<workshop, nextWorkshop, templates, files, settings, now, proc, pool, label, codes>>

\* update_certificate with a CertificateUpdate: of the modelled columns only
\* workshop_name can be given
UpdateCertificate(c, wname) ==
    /\ Live(c)
    /\ cert[c].workshop_name # wname
    /\ cert' = [cert EXCEPT ![c].workshop_name = wname]
    /\ UNCHANGED <<nextCert, workshop, nextWorkshop, templates, files, settings, now, proc, pool, label, codes>>

DeleteCertificate(c) ==
    /\ Live(c)
    /\ cert' = [cert EXCEPT ![c] = NoCert]
    /\ UNCHANGED <<nextCert, workshop, nextWorkshop, templates, files, settings, now, proc, pool, label, codes>>

\* ------------------------------------------------ generate_single_certificate
\* db.query(Workshop).filter(Workshop.title == cert.workshop_name).first():
\* one of the workshops with that title, 0 for None
WorkshopsTitled(name) ==
    {w \in DOMAIN workshop : workshop[w] # NoWorkshop /\ workshop[w].title = name}
FirstWorkshop(o) ==
    IF o = NoCert \/ WorkshopsTitled(o.workshop_name) = {} THEN {0}
    ELSE WorkshopsTitled(o.workshop_name)

\* (variant: the query takes the template that was created first)
TemplateOldest(w) ==
    IF w = 0 \/ templates[w] = << >> THEN NoTemplate ELSE templates[w][1]
\* the template query of workshop w, ordered by created_at descending,
\* .first(); NoTemplate for None
Template(w) ==
    IF w = 0 \/ templates[w] = << >> THEN NoTemplate
    ELSE templates[w][Len(templates[w])]

\* "Already generated?": GENERATED, a file path, and the file exists
AlreadyGenerated(o) ==
    o.status = "GENERATED" /\ o.file_path # NoPath /\ o.file_path \in files

\* (variant: a workshop without template is rendered all the same)
GenGuardNoTemplateCheck(o, w) ==
    IF o = NoCert THEN "not_found"
    ELSE IF AlreadyGenerated(o) THEN "exists"
    ELSE IF w = 0 THEN "no_workshop"
    ELSE "render"
\* (variant: without the "already generated" shortcut)
GenGuardNoShortcut(o, w) ==
    IF o = NoCert THEN "not_found"
    ELSE IF w = 0 THEN "no_workshop"
    ELSE IF Template(w) = NoTemplate THEN "no_template"
    ELSE "render"
\* the checks of generate_single_certificate before _render_certificate, in
\* source order; w is the workshop its query found
GenGuard(o, w) ==
    IF o = NoCert THEN "not_found"
    ELSE IF AlreadyGenerated(o) THEN "exists"
    ELSE IF w = 0 THEN "no_workshop"
    ELSE IF Template(w) = NoTemplate THEN "no_template"
    ELSE "render"

\* _render_certificate ends normally, or with an exception of the download
\* (httpx, Image.open) or of the drawing and saving
RenderOutcomes == {"ok", "fetch_error", "write_error"}

\* (variant: one file name for every certificate)
RenderedElsewhere(o, c) ==
    [o EXCEPT !.file_path = RelPath(0), !.status = "GENERATED"]
\* (variant: the path is stored, the state is left as it was)
RenderedKeepStatus(o, c) == [o EXCEPT !.file_path = RelPath(Code(c))]
\* step 5 of _render_certificate: the attribute values it sets
Rendered(o, c) == [o EXCEPT !.file_path = RelPath(Code(c)), !.status = "GENERATED"]

\* (variant: a render that fails puts the record back to PENDING without a path)
GenerateResultReverting(o, c, g, r) ==
    CASE g = "exists" ->
            [path |-> o.file_path, obj |-> o, fetched |-> 0, wrote |-> FALSE]
      [] g = "render" /\ r = "ok" ->
            [path |-> RelPath(Code(c)), obj |-> Rendered(o, c), fetched |-> 1, wrote |-> TRUE]
      [] g = "render" /\ r # "ok" ->
            [path |-> NoPath, obj |-> [o EXCEPT !.status = "PENDING", !.file_path = NoPath],
             fetched |-> 1, wrote |-> FALSE]
      [] OTHER ->
            [path |-> NoPath, obj |-> o, fetched |-> 0, wrote |-> FALSE]
\* (variant: a PNG that is on storage already is taken for the result)
GenerateResultKeepsFile(o, c, g, r) ==
    CASE g = "exists" ->
            [path |-> o.file_path, obj |-> o, fetched |-> 0, wrote |-> FALSE]
      [] g = "render" /\ RelPath(Code(c)) \in files ->
            [path |-> RelPath(Code(c)), obj |-> o, fetched |-> 0, wrote |-> FALSE]
      [] g = "render" /\ r = "ok" ->
            [path |-> RelPath(Code(c)), obj |-> Rendered(o, c), fetched |-> 1, wrote |-> TRUE]
      [] g = "render" /\ r # "ok" ->
            [path |-> NoPath, obj |-> o, fetched |-> 1, wrote |-> FALSE]
      [] OTHER ->
            [path |-> NoPath, obj |-> o, fetched |-> 0, wrote |-> FALSE]
\* what generate_single_certificate does with certificate c loaded as o, guard
\* result g and render outcome r: the value returned, the object, the downloads
\* made and whether a file was saved
GenerateResult(o, c, g, r) ==
    CASE g = "exists" ->
            [path |-> o.file_path, obj |-> o, fetched |-> 0, wrote |-> FALSE]
      [] g = "render" /\ r = "ok" ->
            [path |-> RelPath(Code(c)), obj |-> Rendered(o, c), fetched |-> 1, wrote |-> TRUE]
      [] g = "render" /\ r # "ok" ->
            [path |-> NoPath, obj |-> o, fetched |-> 1, wrote |-> FALSE]
      [] OTHER ->
            [path |-> NoPath, obj |-> o, fetched |-> 0, wrote |-> FALSE]

\* the effect on storage and record store: img.save and db.commit()
Generate(c, o, res) ==
    /\ files' = IF res.wrote THEN files \cup {res.path} ELSE files
    /\ cert' = Commit(c, o, res.obj)

\* generate_single_certificate(db, c) as a call that keeps what it loaded and
\* what it returned
GenerateCall(p, c) ==
    /\ proc[p].pc = "idle"
    /\ \E w \in FirstWorkshop(cert[c]), r \in RenderOutcomes :
          LET o == cert[c]
              g == GenGuard(o, w)
              res == GenerateResult(o, c, g, r)
          IN  /\ Generate(c, o, res)
              /\ proc' = [proc EXCEPT ![p] =
                    [IdleProc EXCEPT !.pc = "done", !.op = "generate", !.cid = c,
                                     !.obj = o, !.fileOk = FileThere(o),
                                     !.wid = IF g \in {"not_found", "exists"} THEN 0 ELSE w,
                                     !.exc = IF g = "render" THEN r ELSE "none",
                                     !.path = res.path, !.fetched = res.fetched,
                                     !.wrote = res.wrote,
                                     !.onDisk = RelPath(Code(c)) \in files,
                                     !.tpl = IF g = "render" THEN Template(w)
                                             ELSE NoTemplate]]
    /\ UNCHANGED <<nextCert, workshop, nextWorkshop, templates, settings, now, pool, label, codes>>

\* the service is killed while a render of certificate c is between img.save
\* and db.commit(): the PNG is on storage, the record is as it was, and the
\* call returns nothing
RenderCrash(c) ==
    /\ \E w \in FirstWorkshop(cert[c]) : GenGuard(cert[c], w) = "render"
    /\ RelPath(Code(c)) \notin files
    /\ files' = files \cup {RelPath(Code(c))}
    /\ UNCHANGED <<cert, nextCert, workshop, nextWorkshop, templates, settings, now, proc, pool, label, codes>>

\* ----------------------------------------- generate_certificates_for_workshop
\* .all() of a query without ORDER BY: the rows in any order
AnyOrder(S) == Limited(S, Cardinality(S))

Matching(w) == {c \in CertIds : Live(c) /\ cert[c].workshop_name = workshop[w].title}

\* generate_certificates_for_workshop(db, w) up to the loop
BulkGenBegin(p, w) ==
    /\ proc[p].pc = "idle"
    /\ IF workshop[w] = NoWorkshop
       THEN proc' = [proc EXCEPT ![p] =
                [IdleProc EXCEPT !.pc = "done", !.op = "bulk_generate", !.wid = w]]
       ELSE \E cs \in AnyOrder(Matching(w)) :
               proc' = [proc EXCEPT ![p] =
                [IdleProc EXCEPT !.pc = "gen_loop", !.op = "bulk_generate", !.wid = w,
                                 !.cands = cs, !.k = 1, !.total = Len(cs),
                                 !.snap = [c \in CertIds |->
                                             IF c \in Range(cs) THEN cert[c] ELSE NoCert]]]
    /\ UNCHANGED <<cert, nextCert, workshop, nextWorkshop, templates, files, settings, now, pool, label, codes>>

\* (variant: a failure is logged but not counted)
GenCountedNoFailed(q, b) ==
    LET n == [q EXCEPT !.k = q.k + 1]
    IN  CASE b = "generated" -> [n EXCEPT !.generated = q.generated + 1]
          [] b = "skipped"   -> [n EXCEPT !.skipped = q.skipped + 1]
          [] OTHER           -> n
\* (variant: a certificate that is skipped is reported as generated)
GenCountedSkipAsGenerated(q, b) ==
    LET n == [q EXCEPT !.k = q.k + 1]
    IN  CASE b \in {"generated", "skipped"} -> [n EXCEPT !.generated = q.generated + 1]
          [] OTHER -> [n EXCEPT !.failed = q.failed + 1]
\* the next pass of the loop, the bucket b one higher
GenCounted(q, b) ==
    LET n == [q EXCEPT !.k = q.k + 1]
    IN  CASE b = "generated" -> [n EXCEPT !.generated = q.generated + 1]
          [] b = "skipped"   -> [n EXCEPT !.skipped = q.skipped + 1]
          [] OTHER           -> [n EXCEPT !.failed = q.failed + 1]

\* one pass of the loop: the test of the certificate the session holds (reading
\* an expired object re-reads its row, which raises when the row is gone), then
\* generate_single_certificate, whose query returns that same object, or None
\* when the row is gone
BulkGenIter(p) ==
    /\ proc[p].pc = "gen_loop"
    /\ LET q == proc[p] IN
       IF q.k > Len(q.cands)
       THEN /\ proc' = [proc EXCEPT ![p].pc = "done", ![p].tpl = NoTemplate]
            /\ UNCHANGED <<cert, files>>
       ELSE LET c == q.cands[q.k]
                view == IF q.expired THEN cert[c] ELSE q.snap[c]
            IN  IF q.expired /\ ~Live(c)
                THEN /\ proc' = [proc EXCEPT ![p] = BulkRaise(q)]
                     /\ UNCHANGED <<cert, files>>
                ELSE IF AlreadyGenerated(view)
                THEN /\ proc' = [proc EXCEPT ![p] =
                            [GenCounted(q, "skipped") EXCEPT !.tpl = NoTemplate]]
                     /\ UNCHANGED <<cert, files>>
                ELSE \E w \in FirstWorkshop(view), r \in RenderOutcomes :
                       LET o == IF Live(c) THEN view ELSE NoCert
                           g == GenGuard(o, w)
                           res == GenerateResult(o, c, g, r)
                           q1 == IF res.wrote THEN Expire(q) ELSE q
                       IN  /\ Generate(c, o, res)
                           /\ proc' = [proc EXCEPT ![p] =
                                 [GenCounted(q1, IF res.path # NoPath THEN "generated"
                                                 ELSE "failed")
                                  EXCEPT !.tpl = IF g = "render" THEN Template(w)
                                                 ELSE NoTemplate]]
    /\ UNCHANGED <<nextCert, workshop, nextWorkshop, templates, settings, now, pool, label, codes>>

\* ----------------------------------------------------- create_certificates_zip
\* the rows of the query of create_certificates_zip
Zippable(w) ==
    {c \in CertIds : /\ Live(c)
                     /\ cert[c].workshop_name = workshop[w].title
                     /\ cert[c].status = "GENERATED"
                     /\ cert[c].file_path # NoPath}

\* what create_certificates_zip(db, w) returns: None, or the buffer of an
\* archive with the files that exist
ZipResult(w) ==
    IF workshop[w] = NoWorkshop \/ Zippable(w) = {}
    THEN [ret |-> "None", entries |-> {}]
    ELSE [ret |-> "archive",
          entries |-> {c \in Zippable(w) : cert[c].file_path \in files}]

\* GET /admin/download-zip/{w}: 404 when the result is falsy (a BytesIO never
\* is), else the archive is streamed
ZipCall(p, w) ==
    /\ proc[p].pc = "idle"
    /\ proc' = [proc EXCEPT ![p] =
          [IdleProc EXCEPT !.pc = "done", !.op = "zip", !.wid = w,
                           !.ret = IF ZipResult(w).ret = "None" THEN "404" ELSE "archive",
                           !.entries = ZipResult(w).entries]]
    /\ UNCHANGED <<cert, nextCert, workshop, nextWorkshop, templates, files, settings, now, pool, label, codes>>

\* storage cleanup: a generated file vanishes
FileVanish(f) ==
    /\ f \in files
    /\ files' = files \ {f}
    /\ UNCHANGED <<cert, nextCert, workshop, nextWorkshop, templates, settings, now, proc, pool, label, codes>>

\* the service is restarted with other EMAIL_* settings
Reconfigure ==
    /\ AllIdle
    /\ \E s \in SettingsInputs \ {settings} : settings' = s
    /\ UNCHANGED <<cert, nextCert, workshop, nextWorkshop, templates, files, now, proc, pool, label, codes>>

\* time passes
Tick ==
    /\ AllIdle
    /\ now < MaxClock
    /\ now' = now + 1
    /\ UNCHANGED <<cert, nextCert, workshop, nextWorkshop, templates, files, settings, proc, pool, label, codes>>

\* A call looks at the storage in its guards and when it composes the message;
\* when calls run one at a time a loss of a file is taken before one of those
\* steps
BeforeFileRead == \A p \in Procs : proc[p].pc \in {"idle", "sending", "loop", "gen_loop"}

Init ==
    /\ cert = [c \in CertIds |-> NoCert]
    /\ nextCert = 1
    /\ workshop = [w \in WorkshopIds |-> NoWorkshop]
    /\ nextWorkshop = 1
    /\ templates = [w \in WorkshopIds |-> << >>]
    /\ files = {}
    /\ settings \in SettingsInputs
    /\ now = 0
    /\ proc = [p \in Procs |-> IdleProc]
    /\ pool = [w \in WorkshopIds |-> NoRest]
    /\ label = NoLabel
    /\ codes = NoCodes

Next ==
    \/ \E t \in WorkshopTitles : CreateWorkshop(t)
    \/ \E w \in WorkshopIds, u \in FirstImages, v \in FirstPlacements : SaveTemplate(w, u, v)
    \/ \E w \in WorkshopIds : \E i \in DOMAIN templates[w] : AllIdle /\ DeleteTemplate(w, i)
    \/ \E t \in Titles : CreateCertificate(t)
    \/ \E c \in CertIds, t \in Titles : AllIdle /\ UpdateCertificate(c, t)
    \/ \E c \in CertIds : AllIdle /\ DeleteCertificate(c)
    \/ \E p \in SeqProcs, c \in CertIds : AllIdle /\ GenerateCall(p, c)
    \/ \E p \in SeqProcs, w \in WorkshopIds : AllIdle /\ BulkGenBegin(p, w)
    \/ \E p \in Procs : BulkGenIter(p)
    \/ \E c \in CertIds : BeforeFileRead /\ FileVanish(RelPath(Code(c)))
    \/ Reconfigure
    \/ Tick
    \/ \E p \in SeqProcs, c \in CertIds, f \in BOOLEAN : AllIdle /\ SendBegin(p, c, f)
    \/ \E p \in SeqProcs, w \in WorkshopIds, f \in BOOLEAN : AllIdle /\ BulkBegin(p, w, f)
    \/ \E p \in SeqProcs, w \in WorkshopIds, f \in BOOLEAN : AllIdle /\ TriggerBulk(p, w, f)
    \/ \E p \in Procs : proc[p].pc = "queued" /\ BulkBegin(p, proc[p].wid, proc[p].force)
    \/ \E p \in SeqProcs, w \in WorkshopIds : AllIdle /\ ZipCall(p, w)
    \/ \E p \in Procs : BulkIter(p)
    \/ \E p \in Procs : BulkClassify(p)
    \/ \E p \in Procs : SendCompose(p)
    \/ \E p \in Procs : SendCommit(p)
    \/ \E p \in Procs : Return(p)

\* the requests are served one at a time
Spec == Init /\ [][Next]_vars

\* ------------------------------------------------------ overlapping requests
\* A workshop whose certificates have all been generated and none sent, the
\* state in which the e-mail endpoints are used; some of the files may be lost
\* already
GeneratedCertificate(c) ==
    [NewCertificate("A") EXCEPT !.status = "GENERATED", !.file_path = RelPath(Code(c))]

InitConc ==
    /\ cert = [c \in CertIds |-> GeneratedCertificate(c)]
    /\ nextCert = NumCerts + 1
    /\ workshop = [w \in WorkshopIds |-> [title |-> "A"]]
    /\ nextWorkshop = NumWorkshops + 1
    /\ templates = [w \in WorkshopIds |-> <<TemplateRow(w, "img1", "p1")>>]
    /\ files \in SUBSET {RelPath(Code(c)) : c \in CertIds}
    /\ settings \in SettingsInputs
    /\ now = 0
    /\ proc = [p \in Procs |-> IdleProc]
    /\ pool = [w \in WorkshopIds |-> NoRest]
    /\ label = NoLabel
    /\ codes = NoCodes

\* NumProcs calls, one per slot, interleave freely with each other and with the
\* requests of other clients
NextConc ==
    \/ \E c \in CertIds : DeleteCertificate(c)
    \/ \E p \in Procs, c \in CertIds, f \in BOOLEAN : SendBegin(p, c, f)
    \/ \E p \in Procs, w \in WorkshopIds, f \in BOOLEAN : BulkBegin(p, w, f)
    \/ \E p \in Procs : BulkIter(p)
    \/ \E p \in Procs : BulkClassify(p)
    \/ \E p \in Procs : SendCompose(p)
    \/ \E p \in Procs : SendCommit(p)

SpecConc == InitConc /\ [][NextConc]_vars

\* ----------------------------------------------------- certificate generation
\* The administration of workshops, templates and certificates together with
\* the generation endpoints.  The requests of other clients (an update, a
\* delete, the removal of a template, the loss of a file) come between the
\* passes of a bulk generation; a call that has returned is collected first.
NoneDone == \A p \in Procs : proc[p].pc # "done"

NextGen ==
    \/ \E t \in WorkshopTitles : CreateWorkshop(t)
    \/ \E w \in WorkshopIds, u \in FirstImages, v \in FirstPlacements : SaveTemplate(w, u, v)
    \/ \E w \in WorkshopIds : \E i \in DOMAIN templates[w] : NoneDone /\ DeleteTemplate(w, i)
    \/ \E t \in Titles : CreateCertificate(t)
    \/ \E c \in CertIds, t \in Titles : NoneDone /\ UpdateCertificate(c, t)
    \/ \E c \in CertIds : NoneDone /\ DeleteCertificate(c)
    \/ \E c \in CertIds : NoneDone /\ FileVanish(RelPath(Code(c)))
    \/ \E c \in CertIds : AllIdle /\ RenderCrash(c)
    \/ \E p \in SeqProcs, c \in CertIds : AllIdle /\ GenerateCall(p, c)
    \/ \E p \in SeqProcs, w \in WorkshopIds : AllIdle /\ BulkGenBegin(p, w)
    \/ \E p \in Procs : BulkGenIter(p)
    \/ \E p \in SeqProcs, w \in WorkshopIds : AllIdle /\ ZipCall(p, w)
    \/ \E p \in Procs : Return(p)

SpecGen == Init /\ [][NextGen]_vars

\* ------------------------------------------------------------- large batches
\* A workshop with more certificates than one batch takes.  They are kept by
\* number: MAX_BATCH_SIZE + Extra that are not SENT and PoolSent that are SENT,
\* all GENERATED with their files present.  One bulk send runs.
InitBatch ==
    /\ cert = [c \in CertIds |-> NoCert]
    /\ nextCert = 1
    /\ workshop = [w \in WorkshopIds |-> [title |-> "A"]]
    /\ nextWorkshop = NumWorkshops + 1
    /\ templates = [w \in WorkshopIds |-> <<TemplateRow(w, "img1", "p1")>>]
    /\ files = {}
    /\ settings \in SettingsInputs
    /\ now = 0
    /\ proc = [p \in Procs |-> IdleProc]
    /\ pool = [w \in WorkshopIds |-> [unsent |-> MAX_BATCH_SIZE + Extra, sent |-> PoolSent]]
    /\ label = NoLabel
    /\ codes = NoCodes

NextBatch ==
    \/ \E p \in SeqProcs, w \in WorkshopIds, f \in BOOLEAN : BulkBegin(p, w, f)
    \/ \E p \in Procs : BulkIterPool(p)
    \/ \E p \in Procs : BulkIter(p)

SpecBatch == InitBatch /\ [][NextBatch]_vars

\* ------------------------------------------------- the codes and their lookup
\* A code is a text; of its characters it matters whether str.upper() changes
\* them: a lower-case letter, its upper-case letter, and a digit.
Chars == {"a", "A", "1"}
Texts == UNION {[1..n -> Chars] : n \in 1..MaxCodeLen}

\* (variant: the lookups fold the code to lower case)
ToLower(s) == [i \in DOMAIN s |-> IF s[i] = "A" THEN "a" ELSE s[i]]
\* str.upper()
Upper(s) == [i \in DOMAIN s |-> IF s[i] = "a" THEN "A" ELSE s[i]]

\* f"ACM-{current_year}-{random_code}" with random_code = str(uuid4())[:8].upper()
GeneratedCodes == {Upper(t) : t \in Texts}

\* get_certificate_by_code: the row whose code equals the text, << >> for None
GetCertificateByCode(s) == IF s \in codes.stored THEN s ELSE << >>

\* create_certificate with code s, << >> when the request gives none: a given
\* code is stored as it is unless a row has it; a generated one may collide with
\* a stored code, which the unique index refuses
CreateWithCode(s) ==
    /\ codes.pc = "idle"
    /\ Cardinality(codes.stored) < MaxStored
    /\ \E g \in GeneratedCodes :
          LET code == IF s # << >> THEN s ELSE g
              call == [codes EXCEPT !.pc = "done", !.op = "create", !.arg = s]
          IN  codes' =
                IF s # << >> /\ GetCertificateByCode(s) # << >>
                THEN [call EXCEPT !.ret = "ValueError"]
                ELSE IF code \in codes.stored
                THEN [call EXCEPT !.ret = "IntegrityError"]
                ELSE [call EXCEPT !.stored = @ \cup {code}, !.found = code,
                                  !.ret = "created"]
    /\ UNCHANGED <<cert, nextCert, workshop, nextWorkshop, templates, files, settings, now, proc, pool, label>>

\* delete_certificate of the row with code s
DeleteCode(s) ==
    /\ codes.pc = "idle"
    /\ s \in codes.stored
    /\ codes' = [codes EXCEPT !.stored = @ \ {s}]
    /\ UNCHANGED <<cert, nextCert, workshop, nextWorkshop, templates, files, settings, now, proc, pool, label>>

\* verify_certificate(code) and download_certificate_by_code(code) up to their
\* first check: 404 "Certificate not found" when the lookup returns None,
\* otherwise the handler goes on with the row found
PublicLookup(op, s) ==
    /\ codes.pc = "idle"
    /\ LET row == GetCertificateByCode(Upper(s))
       IN  codes' = [codes EXCEPT !.pc = "done", !.op = op, !.arg = s, !.found = row,
                                  !.ret = IF row = << >> THEN "Certificate not found"
                                          ELSE "found"]
    /\ UNCHANGED <<cert, nextCert, workshop, nextWorkshop, templates, files, settings, now, proc, pool, label>>

ReturnLookup ==
    /\ codes.pc = "done"
    /\ codes' = [NoCodes EXCEPT !.stored = codes.stored]
    /\ UNCHANGED <<cert, nextCert, workshop, nextWorkshop, templates, files, settings, now, proc, pool, label>>

NextCode ==
    \/ \E s \in Texts \cup {<< >>} : CreateWithCode(s)
    \/ \E s \in Texts : DeleteCode(s)
    \/ \E op \in {"verify", "download"}, s \in Texts : PublicLookup(op, s)
    \/ ReturnLookup

SpecCode == Init /\ [][NextCode]_vars

\* ------------------------------------------------------- sends without force
\* The e-mail endpoints used with force off only, one request at a time, on a
\* workshop whose certificates have been generated; files are lost, rendered
\* again, and the service is reconfigured in between.
NextNoForce ==
    \/ \E p \in SeqProcs, c \in CertIds : AllIdle /\ SendBegin(p, c, FALSE)
    \/ \E p \in SeqProcs, w \in WorkshopIds : AllIdle /\ BulkBegin(p, w, FALSE)
    \/ \E p \in Procs : BulkIter(p)
    \/ \E p \in Procs : BulkClassify(p)
    \/ \E p \in Procs : SendCompose(p)
    \/ \E p \in Procs : SendCommit(p)
    \/ \E p \in Procs : Return(p)
    \/ \E p \in SeqProcs, c \in CertIds : AllIdle /\ GenerateCall(p, c)
    \/ \E c \in CertIds : BeforeFileRead /\ FileVanish(RelPath(Code(c)))
    \/ Reconfigure

SpecNoForce == InitConc /\ [][NextNoForce]_vars

\* ------------------------------------------------- templates of the workshops
\* NumEvents workshops, the first titled "A" and the others with that or
\* another title, and the certificates of title "A" not yet generated.
\* Administrators save and delete templates between the generation requests,
\* which are served one at a time.
InitTpl ==
    /\ cert = [c \in CertIds |-> NewCertificate("A")]
    /\ nextCert = NumCerts + 1
    /\ workshop \in {f \in [EventIds -> {[title |-> t] : t \in Titles}] : f[1].title = "A"}
    /\ nextWorkshop = NumEvents + 1
    /\ templates = [w \in EventIds |-> << >>]
    /\ files = {}
    /\ settings \in SettingsInputs
    /\ now = 0
    /\ proc = [p \in Procs |-> IdleProc]
    /\ pool = [w \in WorkshopIds |-> NoRest]
    /\ label = NoLabel
    /\ codes = NoCodes

NextTpl ==
    \/ \E w \in EventIds, u \in Images, v \in Placements : SaveTemplate(w, u, v)
    \/ \E w \in EventIds : \E i \in DOMAIN templates[w] : AllIdle /\ DeleteTemplate(w, i)
    \/ \E p \in SeqProcs, c \in CertIds : AllIdle /\ GenerateCall(p, c)
    \/ \E p \in SeqProcs, w \in EventIds : AllIdle /\ BulkGenBegin(p, w)
    \/ \E p \in Procs : BulkGenIter(p)
    \/ \E p \in Procs : Return(p)

SpecTpl == InitTpl /\ [][NextTpl]_vars

\* ------------------------------------------------- the labels of a certificate
\* _render_certificate draws two labels, the recipient's name and the code,
\* each from its placeholder columns of the template and the size of the
\* downloaded image.
Percents   == {-10, 0, 50, 100, 120}          \* values of name_x, name_y, code_x, code_y
FontSizes  == (-1..MaxFontSize) \cup {16, 24} \* values of name_font_size, code_font_size
\* image heights; h / 500 is a multiple of 1/4 for them, so the quotient and its
\* product with a font size are exact in binary floating point
Heights    == {125 * k : k \in 1..MaxQuarters}
Widths     == {1, 800}
Families   == {"Arial", "Lobster"}            \* a family of _FONT_MAP and another one

\* int(n / d) for d > 0: the fraction is cut off, towards zero
IntOf(n, d) == IF n >= 0 THEN n \div d ELSE -((-n) \div d)

\* (percent / 100) * extent, in hundredths of a pixel
PixelPos(percent, extent) == percent * extent

\* (variant: both coordinates are taken against the image height)
PositionByHeight(l) == [px |-> PixelPos(l.x, l.h), py |-> PixelPos(l.y, l.h)]
\* name_x, name_y (code_x, code_y)
Position(l) == [px |-> PixelPos(l.x, l.w), py |-> PixelPos(l.y, l.h)]

\* max(1, int(font_size * scale_factor)) with scale_factor = h / 500
AbsoluteFontSize(fontSize, h) == Max(1, IntOf(fontSize * h, RefHeight))

\* the position and the font size of the label
MapLabel ==
    /\ label.pc = "map"
    /\ label' = [label EXCEPT !.pc = "font", !.step = 1,
                              !.px = Position(label).px, !.py = Position(label).py,
                              !.size = AbsoluteFontSize(label.fontSize, label.h)]
    /\ UNCHANGED <<cert, nextCert, workshop, nextWorkshop, templates, files, settings, now, proc, pool, codes>>

\* _get_font: the font sources in the order they are tried, FONTS_DIR, the four
\* _SYSTEM_FONT_DIRS, Pillow's lookup by name, the default font at the
\* requested size and the default font
Chain ==
    <<"FONTS_DIR", "WINDIR/Fonts", "/usr/share/fonts", "/usr/local/share/fonts",
      "/System/Library/Fonts", "truetype(family)", "load_default(size)", "load_default()">>

StepKind(i) ==
    CASE i \in 1..5 -> "file"
      [] i = 6      -> "name"
      [] i = 7      -> "sized"
      [] OTHER      -> "unsized"

\* what a step can end with: is_file() is false; ImageFont.truetype returns a
\* font or raises OSError (the size passed is at least 1); load_default(size=)
\* returns a font or, in a Pillow before 10.1, raises TypeError; load_default()
\* returns a font
Outcomes(i) ==
    CASE StepKind(i) = "file"  -> {"no_file", "OSError", "font"}
      [] StepKind(i) = "name"  -> {"OSError", "font"}
      [] StepKind(i) = "sized" -> {"TypeError", "font"}
      [] OTHER                 -> {"font"}

\* (variant: the lookup by name is not wrapped in try/except)
FallsThroughNameUncaught(i, x) ==
    \/ x = "no_file"
    \/ StepKind(i) = "file" /\ x = "OSError"
    \/ StepKind(i) = "sized" /\ x = "TypeError"
\* whether a step that ended with x goes on to the next one: the file is not
\* there, or the except clause of the step catches x
FallsThrough(i, x) ==
    \/ x = "no_file"
    \/ StepKind(i) \in {"file", "name"} /\ x = "OSError"
    \/ StepKind(i) = "sized" /\ x = "TypeError"

\* one step of _get_font(family, size)
GetFontStep ==
    /\ label.pc = "font"
    /\ \E x \in Outcomes(label.step) :
         label' = IF x = "font"
                  THEN [label EXCEPT !.pc = "done", !.font = Chain[label.step]]
                  ELSE IF FallsThrough(label.step, x)
                  THEN [label EXCEPT !.step = label.step + 1]
                  ELSE [label EXCEPT !.pc = "done", !.font = "raise"]
    /\ UNCHANGED <<cert, nextCert, workshop, nextWorkshop, templates, files, settings, now, proc, pool, codes>>

\* a label of any template on any image
InitLabel ==
    /\ cert = [c \in CertIds |-> NoCert]
    /\ nextCert = 1
    /\ workshop = [w \in WorkshopIds |-> NoWorkshop]
    /\ nextWorkshop = 1
    /\ templates = [w \in WorkshopIds |-> << >>]
    /\ files = {}
    /\ settings = [EMAIL_HOST |-> TRUE, EMAIL_USERNAME |-> TRUE, EMAIL_PASSWORD |-> TRUE]
    /\ now = 0
    /\ proc = [p \in Procs |-> IdleProc]
    /\ pool = [w \in WorkshopIds |-> NoRest]
    /\ codes = NoCodes
    /\ \E which \in {"name", "code"}, x, y \in Percents, fs \in FontSizes,
          fam \in Families, w \in Widths, h \in Heights :
         label = [NoLabel EXCEPT !.pc = "map", !.which = which, !.x = x, !.y = y,
                                 !.fontSize = fs, !.family = fam, !.w = w, !.h = h]

NextLabel ==
    \/ MapLabel
    \/ GetFontStep

SpecLabel == InitLabel /\ [][NextLabel]_vars

\* --------------------------------------------------- bulk_create_certificates
\* What a row gives as its code: 0 for none, else a code.  A certificate is kept
\* under its code (Code), so a code that names a stored certificate exists
\* already, and a new certificate with a given code is kept under that code.
RowCodes == 0..NumCerts
Batches  == UNION {[1..n -> RowCodes] : n \in 0..MaxRows}

\* the batches whose new certificates the table of the model has room for
Fits(rows) ==
    LET given == {rows[i] : i \in 1..Len(rows)} \cup {nextCert - 1}
        top   == CHOOSE k \in given : \A j \in given : j <= k
    IN  top + Cardinality({i \in 1..Len(rows) : rows[i] = 0}) <= NumCerts

\* POST /admin/bulk-create with the rows certificates_data
BulkCreateBegin(p, rows) ==
    /\ proc[p].pc = "idle"
    /\ Fits(rows)
    /\ proc' = [proc EXCEPT ![p] =
          [IdleProc EXCEPT !.pc = "create_loop", !.op = "bulk_create",
                           !.rows = rows, !.k = 1]]
    /\ UNCHANGED <<cert, nextCert, workshop, nextWorkshop, templates, files, settings, now, pool, label, codes>>

\* (variant: without the try/except the exception of a row ends the request)
CreateFailedAbort(q) == [q EXCEPT !.pc = "done", !.ret = "raise"]
\* the except clause: db.rollback() and an entry of `errors` with the row number
CreateFailed(q) == [q EXCEPT !.errors = Append(q.errors, q.k), !.k = q.k + 1]

\* one pass of the loop of bulk_create_certificates: create_certificate raises
\* ValueError when the code of the row exists; else the code is the one given
\* or a fresh one, and the row is added and committed (the commit fails when
\* another request has stored the code in the meantime); after the last row
\* the response is returned
BulkCreateRow(p) ==
    /\ proc[p].pc = "create_loop"
    /\ LET q == proc[p] IN
       IF q.k > Len(q.rows)
       THEN /\ proc' = [proc EXCEPT ![p] =
                  [q EXCEPT !.pc = "done",
                            !.ret = IF q.errors = << >> THEN "success" ELSE "errors"]]
            /\ UNCHANGED <<cert, nextCert>>
       ELSE LET code == q.rows[q.k]
                key  == IF code = 0 THEN nextCert ELSE code
            IN  IF code # 0 /\ Live(code)
                THEN /\ proc' = [proc EXCEPT ![p] = CreateFailed(q)]
                     /\ UNCHANGED <<cert, nextCert>>
                ELSE \E x \in {"ok", "IntegrityError"} :
                       IF x = "ok"
                       THEN /\ cert' = [cert EXCEPT ![key] = NewCertificate("A")]
                            /\ nextCert' = Max(nextCert, key + 1)
                            /\ proc' = [proc EXCEPT ![p] =
                                  [q EXCEPT !.created = Append(q.created, key),
                                            !.k = q.k + 1]]
                       ELSE /\ proc' = [proc EXCEPT ![p] = CreateFailed(q)]
                            /\ UNCHANGED <<cert, nextCert>>
    /\ UNCHANGED <<workshop, nextWorkshop, templates, files, settings, now, pool, label, codes>>

\* the creation endpoints, one request at a time
NextCreate ==
    \/ \E t \in Titles : CreateCertificate(t)
    \/ \E c \in CertIds : AllIdle /\ DeleteCertificate(c)
    \/ \E p \in SeqProcs, rows \in Batches : AllIdle /\ BulkCreateBegin(p, rows)
    \/ \E p \in Procs : BulkCreateRow(p)
    \/ \E p \in Procs : Return(p)

SpecCreate == Init /\ [][NextCreate]_vars

\* ===================================================================== claims
\* a call of send_certificate_email that has returned: Pre is the record as the
\* call loaded it, Post the stored record
SendDone(p) == proc[p].pc = "done" /\ proc[p].op = "send"
Pre(p)  == proc[p].obj
Post(p) == cert[proc[p].cid]
\* a call of send_bulk_certificate_emails that has returned its counts
BulkDone(p) == proc[p].pc = "done" /\ proc[p].op = "bulk" /\ proc[p].ret # "raise"

\* C1 as stated: a send with force=false on a record whose delivery state is
\* SENT returns true, calls no transport and leaves delivery state and error
\* text as they were.
C1_AnySentIsSkipped ==
    \A p \in Procs :
        (SendDone(p) /\ Pre(p).email_status = "SENT" /\ ~proc[p].force)
        => /\ proc[p].ret = "true"
           /\ proc[p].exc = "none"
           /\ Post(p).email_status = Pre(p).email_status
           /\ Post(p).email_error = Pre(p).email_error

\* C1 amended: a send with force=false on a SENT record whose file exists on
\* storage returns true, calls no transport and leaves the whole record as it was.
C1_SentWithFileIsSkipped ==
    \A p \in Procs :
        (SendDone(p) /\ Pre(p).email_status = "SENT" /\ ~proc[p].force /\ proc[p].fileOk)
        => /\ proc[p].ret = "true"
           /\ proc[p].exc = "none"
           /\ Post(p) = Pre(p)

C1_Witness ==
    \E p \in Procs :
        /\ SendDone(p) /\ Pre(p).email_status = "SENT" /\ ~proc[p].force /\ proc[p].fileOk
        /\ proc[p].ret = "true"

\* C2 as stated: whenever a stored certificate's delivery state changes, it
\* changes NOT_SENT->SENT, NOT_SENT->FAILED or FAILED->SENT (SENT->SENT changes
\* nothing).
StatusChange(c) ==
    Live(c) /\ cert'[c] # NoCert /\ cert'[c].email_status # cert[c].email_status
C2_ListedTransitionsOnly ==
    [][\A c \in CertIds :
          StatusChange(c) =>
             <<cert[c].email_status, cert'[c].email_status>> \in
                {<<"NOT_SENT", "SENT">>, <<"NOT_SENT", "FAILED">>, <<"FAILED", "SENT">>}]_vars

\* C2 amended: a delivery state changes only NOT_SENT->SENT, NOT_SENT->FAILED,
\* FAILED->SENT or SENT->FAILED; a record is created NOT_SENT and no operation
\* ever puts one back to NOT_SENT.
C2_TransitionsWithSentToFailed ==
    [][\A c \in CertIds :
          /\ StatusChange(c) =>
                <<cert[c].email_status, cert'[c].email_status>> \in
                   {<<"NOT_SENT", "SENT">>, <<"NOT_SENT", "FAILED">>,
                    <<"FAILED", "SENT">>, <<"SENT", "FAILED">>}
          /\ (~Live(c) /\ cert'[c] # NoCert) => cert'[c].email_status = "NOT_SENT"]_vars

\* a record that was SENT once (it carries a sent time) and is FAILED now
C2_Witness ==
    \E c \in CertIds :
        Live(c) /\ cert[c].email_status = "FAILED" /\ cert[c].email_sent_at # NoTime

\* The certificates of the workshop that were GENERATED and SENT when the bulk
\* call of p selected its candidates.  With force=false the call writes only its
\* candidates, none of which was SENT at selection, and Spec has no concurrent
\* writer: the non-candidates that are SENT now were SENT then.
SentBeforeCall(p) ==
    {c \in CertIds : /\ Live(c)
                     /\ c \notin Range(proc[p].cands)
                     /\ cert[c].workshop_name = workshop[proc[p].wid].title
                     /\ cert[c].status = "GENERATED"
                     /\ cert[c].email_status = "SENT"}

\* C3 as stated: a bulk run with force=false counts every certificate of the
\* workshop that was GENERATED and SENT before the call in `skipped`.
C3_SentBeforeCountedSkipped ==
    \A p \in Procs :
        (BulkDone(p) /\ ~proc[p].force /\ workshop[proc[p].wid] # NoWorkshop)
        => proc[p].skipped >= Cardinality(SentBeforeCall(p))

\* C3 amended: a bulk run with force=false leaves every certificate of the
\* workshop that is GENERATED and SENT at the call out of its candidates: it is
\* not part of `total`, and no step of the run touches its record.
C3_SentBeforeNotExamined ==
    [][\A p \in Procs :
          /\ (proc[p].pc = "idle" /\ proc'[p].op = "bulk" /\ ~proc'[p].force
              /\ workshop[proc'[p].wid] # NoWorkshop)
             => /\ \A c \in CertIds :
                     (Live(c) /\ cert[c].workshop_name = workshop[proc'[p].wid].title
                      /\ cert[c].status = "GENERATED" /\ cert[c].email_status = "SENT")
                     => c \notin Range(proc'[p].cands)
                /\ proc'[p].total = Len(proc'[p].cands)
          /\ proc[p].op = "bulk"
             => \A c \in CertIds \ Range(proc[p].cands) : cert'[c] = cert[c]]_vars

C3_Witness ==
    \E p \in Procs :
        /\ BulkDone(p) /\ ~proc[p].force /\ workshop[proc[p].wid] # NoWorkshop
        /\ SentBeforeCall(p) # {}
        /\ proc[p].total = 1 /\ proc[p].skipped = 0

C5_NotGeneratedUntouched ==
    \A p \in Procs :
        (SendDone(p) /\ (Pre(p) = NoCert \/ Pre(p).status # "GENERATED"))
        => /\ proc[p].ret = "false"
           /\ proc[p].exc = "none"
           /\ Post(p) = Pre(p)

C5_Witness ==
    \E p \in Procs :
        /\ SendDone(p) /\ Pre(p).status = "PENDING" /\ proc[p].ret = "false"
        /\ Post(p).email_status = "NOT_SENT"

ClassText(exc) ==
    CASE exc = "SMTPAuthenticationError" -> "SMTP authentication failed"
      [] exc = "SMTPException"           -> "SMTP error"
      [] exc = "FileNotFoundError"       -> "File not found"
      [] OTHER                           -> "Unexpected error"

\* C8: when composing or sending raises, the record is left FAILED with a text
\* of at most 2000 characters that names the class of the error, and the call
\* returns false (no exception leaves it).
C8_ErrorsAreRecorded ==
    \A p \in Procs :
        (SendDone(p) /\ proc[p].exc \notin {"none", "ok"})
        => /\ Post(p).email_status = "FAILED"
           /\ Post(p).email_error.len <= MaxErrorLen
           /\ Post(p).email_error.kind = ClassText(proc[p].exc)
           /\ proc[p].ret = "false"

C8_Witness ==
    \E p \in Procs :
        /\ SendDone(p) /\ proc[p].exc = "SMTPAuthenticationError"
        /\ Post(p).email_status = "FAILED"
        /\ Post(p).email_error = [kind |-> "SMTP authentication failed", len |-> MaxErrorLen]

\* C9: when the guards pass and the transport accepts the message, the record is
\* SENT, carries the time of the send and no error text, and the call returns true.
C9_SuccessIsRecorded ==
    \A p \in Procs :
        (SendDone(p) /\ proc[p].exc = "ok")
        => /\ Post(p).email_status = "SENT"
           /\ Post(p).email_sent_at = now
           /\ Post(p).email_error = NoError
           /\ proc[p].ret = "true"

\* a success on a record that was FAILED, and a forced one on a record SENT earlier
C9_Witness ==
    \E p \in Procs :
        /\ SendDone(p) /\ proc[p].exc = "ok" /\ proc[p].ret = "true"
        /\ \/ Pre(p).email_status = "FAILED" /\ Pre(p).email_error # NoError
           \/ Pre(p).email_status = "SENT" /\ proc[p].force /\ Pre(p).email_sent_at < now

\* the idempotent skip: the guards up to the file check passed, the record was
\* SENT, force was false, and the try block was not entered
Skipped(p) ==
    /\ proc[p].exc = "none" /\ proc[p].fileOk
    /\ Pre(p).email_status = "SENT" /\ ~proc[p].force

\* C10: a send returns true exactly when its own submission succeeded or it
\* skipped a record already SENT, and false otherwise; a true return leaves the
\* record SENT.
C10_TrueOnlyOnSuccessOrSkip ==
    \A p \in Procs :
        SendDone(p) =>
            /\ proc[p].ret \in {"true", "false"}
            /\ proc[p].ret = "true" <=> (proc[p].exc = "ok" \/ Skipped(p))
            /\ proc[p].ret = "true" => Post(p).email_status = "SENT"

C10_Witness ==
    \E p \in Procs :
        /\ SendDone(p) /\ proc[p].ret = "false" /\ proc[p].exc = "Exception"
        /\ Pre(p).email_status = "SENT"

\* ------------------------------------------------------------- generation
\* a call of generate_single_certificate that has returned
GenDone(p) == proc[p].pc = "done" /\ proc[p].op = "generate"

\* C11: generate_single_certificate on a record that is GENERATED and whose file
\* exists downloads no template, saves no file, leaves the record as it was and
\* returns the stored path.  (A second render right after a successful one finds
\* the record in that state: C12.)
C11_AlreadyGeneratedIsReturned ==
    \A p \in Procs :
        (GenDone(p) /\ Pre(p) # NoCert /\ Pre(p).status = "GENERATED" /\ proc[p].fileOk)
        => /\ proc[p].fetched = 0
           /\ ~proc[p].wrote
           /\ Post(p) = Pre(p)
           /\ proc[p].path = Pre(p).file_path
           /\ proc[p].path # NoPath

C11_Witness ==
    \E p \in Procs :
        /\ GenDone(p) /\ Pre(p) # NoCert /\ Pre(p).status = "GENERATED" /\ proc[p].fileOk
        /\ proc[p].wid = 0 /\ \A w \in DOMAIN templates : templates[w] = << >>

\* C12: after a render that ended normally the record is GENERATED, its
\* file_path is "certificates/<code>.png", that file exists, and the path is the
\* value returned.
C12_RenderStoresPath ==
    \A p \in Procs :
        (GenDone(p) /\ proc[p].exc = "ok")
        => /\ Post(p).status = "GENERATED"
           /\ Post(p).file_path = RelPath(Code(proc[p].cid))
           /\ Post(p).file_path \in files
           /\ proc[p].path = Post(p).file_path

C12_Witness ==
    \E p \in Procs :
        /\ GenDone(p) /\ proc[p].exc = "ok" /\ proc[p].cid = NumCerts
        /\ Pre(p).status = "PENDING" /\ proc[p].wrote

\* C13: in every state a record has a file_path iff it is GENERATED.
C13_PathIffGenerated ==
    \A c \in CertIds :
        Live(c) => (cert[c].file_path # NoPath <=> cert[c].status = "GENERATED")

C13_Witness ==
    \E c, d \in CertIds :
        /\ Live(c) /\ cert[c].status = "GENERATED" /\ cert[c].file_path = RelPath(Code(c))
        /\ Live(d) /\ cert[d].status = "PENDING" /\ cert[d].file_path = NoPath

\* C14: in every state a record whose delivery state is SENT is GENERATED and
\* has a file_path (the file itself may be gone).
C14_SentIsGenerated ==
    \A c \in CertIds :
        (Live(c) /\ cert[c].email_status = "SENT")
        => cert[c].status = "GENERATED" /\ cert[c].file_path # NoPath

C14_Witness ==
    \E c \in CertIds :
        /\ Live(c) /\ cert[c].email_status = "SENT" /\ cert[c].status = "GENERATED"
        /\ cert[c].file_path # NoPath /\ cert[c].file_path \notin files

\* C15: a step never takes a GENERATED record to another generation state and
\* never clears its file_path; the record stays as it is in these two columns
\* until it is deleted.
C15_GeneratedStays ==
    [][\A c \in CertIds :
          (Live(c) /\ cert[c].status = "GENERATED")
          => \/ cert'[c] = NoCert
             \/ cert'[c].status = "GENERATED" /\ cert'[c].file_path # NoPath]_vars

\* a re-render after the file vanished has failed
C15_Witness ==
    \E p \in Procs :
        /\ GenDone(p) /\ Pre(p) # NoCert /\ Pre(p).status = "GENERATED" /\ ~proc[p].fileOk
        /\ proc[p].exc \in {"fetch_error", "write_error"}
        /\ Post(p).status = "GENERATED" /\ Post(p).file_path # NoPath
        /\ Post(p).email_status = "FAILED"

\* a call of generate_certificates_for_workshop that has ended
BulkGenEnded(p) == proc[p].pc = "done" /\ proc[p].op = "bulk_generate"

\* C16 as stated: the loop is never aborted, every matching certificate is
\* processed and the counts returned add up to their number.
C16_LoopNeverAborts ==
    \A p \in Procs :
        BulkGenEnded(p)
        => /\ proc[p].ret # "raise"
           /\ proc[p].generated + proc[p].skipped + proc[p].failed = proc[p].total
           /\ proc[p].total = Len(proc[p].cands)

\* C16, what the code keeps: a run that returns has made one pass per matching
\* certificate and its counts add up to their number.
C16_ReturnedCountsAddUp ==
    \A p \in Procs :
        (BulkGenEnded(p) /\ proc[p].ret # "raise")
        => /\ proc[p].generated + proc[p].skipped + proc[p].failed = proc[p].total
           /\ proc[p].total = Len(proc[p].cands)
           /\ workshop[proc[p].wid] # NoWorkshop => proc[p].k = Len(proc[p].cands) + 1

C16_Witness ==
    \E p \in Procs :
        /\ BulkGenEnded(p) /\ proc[p].ret # "raise"
        /\ proc[p].generated = 1 /\ proc[p].failed = 1 /\ proc[p].total = 2

\* C17 as stated: generate_single_certificate fails, downloading and writing
\* nothing and changing no record, whenever the id is absent, no workshop has
\* the certificate's workshop_name as title, or that workshop has no template.
NothingToRenderWith(o) ==
    \/ o = NoCert
    \/ WorkshopsTitled(o.workshop_name) = {}
    \/ \A w \in WorkshopsTitled(o.workshop_name) : templates[w] = << >>

C17_FailsWithoutTemplate ==
    \A p \in Procs :
        (GenDone(p) /\ NothingToRenderWith(Pre(p)))
        => /\ proc[p].path = NoPath
           /\ proc[p].fetched = 0 /\ ~proc[p].wrote
           /\ Post(p) = Pre(p)

\* C17: the same for a certificate that is not already GENERATED with its file
\* present (such a certificate gets its stored path whatever the workshop and
\* the template).
C17_FailsUnlessAlreadyGenerated ==
    \A p \in Procs :
        (/\ GenDone(p) /\ NothingToRenderWith(Pre(p))
         /\ ~(Pre(p) # NoCert /\ Pre(p).status = "GENERATED" /\ proc[p].fileOk))
        => /\ proc[p].path = NoPath
           /\ proc[p].fetched = 0 /\ ~proc[p].wrote
           /\ Post(p) = Pre(p)

C17_Witness ==
    \E p \in Procs :
        /\ GenDone(p) /\ Pre(p) # NoCert
        /\ Pre(p).status = "GENERATED" /\ ~proc[p].fileOk
        /\ WorkshopsTitled(Pre(p).workshop_name) # {}
        /\ \A w \in WorkshopsTitled(Pre(p).workshop_name) : templates[w] = << >>
        /\ proc[p].path = NoPath

\* ------------------------------------------------------ bulk send: selection
\* the step in which call p of send_bulk_certificate_emails runs its query
Selects(p) == proc[p].pc = "idle" /\ proc'[p].op = "bulk" /\ proc'[p].pc = "loop"
\* the step in which the loop of p calls send_certificate_email for a candidate
CallsSend(p) ==
    /\ proc[p].op = "bulk" /\ proc[p].pc = "loop"
    /\ proc'[p].pc \in {"sending", "classify"}
InWorkshop(c, w) ==
    Live(c) /\ cert[c].workshop_name = workshop[w].title /\ cert[c].status = "GENERATED"

\* C18: the query of a bulk send selects only GENERATED records of the workshop
\* and, without force, only ones that are not SENT; the loop calls
\* send_certificate_email only for the candidate at hand; with force the SENT
\* records of the workshop are selected too and the loop sends them again (the
\* transport is reached when the file exists and the transport is configured).
C18_SelectionCriteria ==
    [][\A p \in Procs :
          /\ Selects(p) =>
                /\ \A c \in Range(proc'[p].cands) :
                      /\ InWorkshop(c, proc'[p].wid)
                      /\ (proc'[p].force \/ cert[c].email_status # "SENT")
                /\ proc'[p].force =>
                      \A c \in CertIds :
                         (InWorkshop(c, proc'[p].wid) /\ cert[c].email_status = "SENT")
                         => c \in Range(proc'[p].cands)
          /\ CallsSend(p) =>
                /\ proc'[p].cands = proc[p].cands
                /\ proc'[p].cid = proc[p].cands[proc[p].k]
          /\ (/\ proc[p].op = "bulk" /\ proc[p].pc = "loop" /\ proc[p].force
              /\ proc[p].k <= Len(proc[p].cands)
              /\ InWorkshop(proc[p].cands[proc[p].k], proc[p].wid)
              /\ cert[proc[p].cands[proc[p].k]].email_status = "SENT"
              /\ proc'[p] # proc[p])
             => /\ CallsSend(p)
                /\ (FileThere(cert[proc[p].cands[proc[p].k]]) /\ IsEmailConfigured)
                   => proc'[p].pc = "sending"]_vars

\* a forced run sends a SENT record again while another record of the store
\* was not selected
C18_Witness ==
    \E p \in Procs, d \in CertIds :
        /\ proc[p].op = "bulk" /\ proc[p].force /\ proc[p].pc = "commit"
        /\ proc[p].obj.email_status = "SENT" /\ proc[p].exc = "ok"
        /\ Live(d) /\ d \notin Range(proc[p].cands)

\* C20 as stated: a GENERATED record that is FAILED or NOT_SENT is selected by
\* every bulk send of its workshop, and a send with force=false on it reaches
\* the transport and, on success, makes it SENT.
Retryable(o) ==
    o # NoCert /\ o.status = "GENERATED" /\ o.email_status \in {"FAILED", "NOT_SENT"}
SelectsRetryable ==
    \A p \in Procs :
        Selects(p) =>
            \A c \in CertIds :
                (Retryable(cert[c]) /\ InWorkshop(c, proc'[p].wid))
                => c \in Range(proc'[p].cands)
\* the step in which a send with force=false on a retryable record passes or
\* fails the guards
RetriesSingle(p) ==
    /\ proc[p].pc = "idle" /\ proc'[p].op = "send" /\ ~proc'[p].force
    /\ Retryable(proc'[p].obj)

C20_RetryReachesTransport ==
    [][/\ SelectsRetryable
       /\ \A p \in Procs : RetriesSingle(p) => proc'[p].pc = "sending"
       /\ \A p \in Procs :
             (/\ proc[p].op = "send" /\ ~proc[p].force /\ Retryable(proc[p].obj)
              /\ proc[p].pc = "commit" /\ proc[p].exc = "ok" /\ proc'[p].pc = "done")
             => /\ proc'[p].ret = "true"
                /\ cert'[proc[p].cid].email_status = "SENT"]_vars

\* C20: the same, the send reaching the transport when the file of the record
\* exists and the transport is configured (otherwise the guards mark it FAILED
\* once more).
C20_RetryWithFileReachesTransport ==
    [][/\ SelectsRetryable
       /\ \A p \in Procs :
             (RetriesSingle(p) /\ proc'[p].fileOk /\ IsEmailConfigured)
             => proc'[p].pc = "sending"
       /\ \A p \in Procs :
             (/\ proc[p].op = "send" /\ ~proc[p].force /\ Retryable(proc[p].obj)
              /\ proc[p].pc = "commit" /\ proc[p].exc = "ok" /\ proc'[p].pc = "done")
             => /\ proc'[p].ret = "true"
                /\ cert'[proc[p].cid].email_status = "SENT"]_vars

\* a send with force=false has made a FAILED record SENT
C20_Witness ==
    \E p \in Procs :
        /\ SendDone(p) /\ ~proc[p].force /\ Pre(p) # NoCert
        /\ Pre(p).email_status = "FAILED" /\ proc[p].exc = "ok"
        /\ Post(p).email_status = "SENT" /\ proc[p].ret = "true"

\* ---------------------------------------------------------- bulk send: cap
\* the passes of the loop made so far by call p
Examined(p) == proc[p].sent + proc[p].skipped + proc[p].failed

\* C19: a bulk send takes at most MAX_BATCH_SIZE = 1000 candidates although more
\* are eligible, makes at most one pass (one send) per candidate, and leaves the
\* eligible records beyond the batch as they were: of the MAX_BATCH_SIZE + Extra
\* records that were not SENT, those that are no longer so are the ones the run
\* has sent.
C19_BatchIsCapped ==
    \A p \in Procs :
        proc[p].op = "bulk"
        => /\ proc[p].total = MAX_BATCH_SIZE
           /\ Examined(p) + proc[p].rest.unsent + proc[p].rest.sent = proc[p].total
           /\ Examined(p) <= MAX_BATCH_SIZE
           /\ pool[proc[p].wid].unsent + pool[proc[p].wid].sent
                 = MAX_BATCH_SIZE + Extra + PoolSent
           /\ pool[proc[p].wid].unsent >= MAX_BATCH_SIZE + Extra - proc[p].sent
           /\ pool[proc[p].wid].unsent >= Extra

C19_Witness ==
    \E p \in Procs :
        /\ BulkDone(p) /\ ~proc[p].force
        /\ proc[p].total = MAX_BATCH_SIZE /\ Examined(p) = MAX_BATCH_SIZE
        /\ proc[p].sent >= 1 /\ proc[p].failed >= 1
        /\ pool[proc[p].wid].unsent = MAX_BATCH_SIZE + Extra - proc[p].sent

\* --------------------------------------------------------------------- labels
\* round(n / d) for d > 0, to the nearest integer, a half to the even one
Round(n, d) ==
    LET q == (2 * n + d) \div (2 * d)
    IN  IF (2 * n + d) % (2 * d) = 0 /\ q % 2 = 1 THEN q - 1 ELSE q

\* C21: the font size passed for a label is max(1, round(fontSize * h / 500)),
\* for every placeholder font size and image height (the code cuts the
\* fraction off instead: 7 on an image of height 125 gives 1, not 2)
C21_FontSizeIsRounded ==
    label.pc \in {"font", "done"} =>
        label.size = Max(1, Round(label.fontSize * label.h, RefHeight))

\* C22: a placeholder with x and y in [0,100] is drawn inside the image:
\* 0 <= pixelX <= w and 0 <= pixelY <= h
C22_PositionInsideImage ==
    (/\ label.pc \in {"font", "done"}
     /\ label.x \in 0..100 /\ label.y \in 0..100)
    => /\ 0 <= label.px /\ label.px <= 100 * label.w
       /\ 0 <= label.py /\ label.py <= 100 * label.h
\* a label placed in the bottom right corner of an image wider than high
C22_Witness ==
    /\ label.pc = "done"
    /\ label.x = 100 /\ label.y = 100 /\ label.w > label.h
    /\ label.px = 100 * label.w /\ label.py = 100 * label.h

ZipDone(p) == proc[p].pc = "done" /\ proc[p].op = "zip"

\* C24: the zip download is answered not-found, never with an archive without
\* entries, when no certificate file is found for the workshop: the workshop is
\* absent, it has no GENERATED certificate, or none of the files exists (the
\* last case gets an empty archive)
C24_NoFileNoArchive ==
    \A p \in Procs :
        (/\ ZipDone(p)
         /\ \/ workshop[proc[p].wid] = NoWorkshop
            \/ \A c \in CertIds :
                 ~(/\ Live(c)
                   /\ cert[c].workshop_name = workshop[proc[p].wid].title
                   /\ cert[c].status = "GENERATED"
                   /\ cert[c].file_path \in files))
        => proc[p].ret = "404"

\* --------------------------------------------------------------- the trigger
\* C25: the total returned by send_workshop_emails is the number of candidates
\* the background run it scheduled selects, when nothing changes in between
\* (the count of the trigger leaves the SENT filter and the cap out)
C25_TriggerCountsCandidates ==
    [][\A p \in Procs :
         proc[p].pc = "queued" /\ proc'[p].pc # "queued"
         => proc'[p].total = proc[p].total]_vars

\* ------------------------------------------------------------- bulk creation
CreateDone(p) == proc[p].pc = "done" /\ proc[p].op = "bulk_create"

\* C26: bulk_create_certificates processes every row: a failing row is reported
\* in errors with its row number and neither ends the batch nor undoes other
\* rows; count + number of errors = number of rows, and every counted
\* certificate is stored
C26_EveryRowProcessed ==
    \A p \in Procs : CreateDone(p) =>
        LET q == proc[p] IN
        /\ q.ret # "raise"
        /\ q.k = Len(q.rows) + 1
        /\ Len(q.created) + Len(q.errors) = Len(q.rows)
        /\ \A i \in 1..Len(q.errors) :
              /\ q.errors[i] \in 1..Len(q.rows)
              /\ i > 1 => q.errors[i - 1] < q.errors[i]
        /\ \A i \in 1..Len(q.created) : Live(q.created[i])
        /\ \A i, j \in 1..Len(q.created) : i # j => q.created[i] # q.created[j]
        /\ \A i \in 1..Len(q.rows) :
              (q.rows[i] # 0 /\ i \notin Range(q.errors)) => q.rows[i] \in Range(q.created)
\* a duplicate between two rows that are created
C26_Witness ==
    \E p \in Procs :
        /\ CreateDone(p)
        /\ Len(proc[p].rows) = 3 /\ proc[p].rows[1] = proc[p].rows[2]
        /\ proc[p].errors = <<2>> /\ Len(proc[p].created) = 2

\* ------------------------------------------------------ order of the guards
Configured == settings.EMAIL_HOST /\ settings.EMAIL_USERNAME /\ settings.EMAIL_PASSWORD

\* C27: send_certificate_email checks (1) the certificate exists, (2) it is
\* GENERATED, (3) its file path is set and the file is there, (4) it is SENT
\* and force is off, (5) the transport is configured, in this order; the first
\* check that does not pass decides the return value and the change of the
\* record, whatever the later ones would say, and the transport is tried only
\* when all pass
C27_FirstFailingGuardDecides ==
    \A p \in Procs : SendDone(p) =>
        LET unchanged == proc[p].exc = "none" /\ Post(p) = Pre(p)
            failedFile == /\ proc[p].exc = "none"
                          /\ Post(p) = MarkFailed(Pre(p), Msg("File not found", PathLen))
            failedConf == /\ proc[p].exc = "none"
                          /\ Post(p) = MarkFailed(Pre(p), NotConfiguredMsg)
        IN  IF Pre(p) = NoCert THEN proc[p].ret = "false" /\ unchanged
            ELSE IF Pre(p).status # "GENERATED" THEN proc[p].ret = "false" /\ unchanged
            ELSE IF Pre(p).file_path = NoPath THEN proc[p].ret = "false" /\ unchanged
            ELSE IF ~proc[p].fileOk THEN proc[p].ret = "false" /\ failedFile
            ELSE IF Pre(p).email_status = "SENT" /\ ~proc[p].force
                 THEN proc[p].ret = "true" /\ unchanged
            ELSE IF ~Configured THEN proc[p].ret = "false" /\ failedConf
            ELSE proc[p].exc # "none"
\* a SENT certificate with its file, force off, transport not configured: true
\* is returned and the record is not marked FAILED
C27_Witness ==
    \E p \in Procs :
        /\ SendDone(p) /\ Pre(p).status = "GENERATED" /\ proc[p].fileOk
        /\ Pre(p).email_status = "SENT" /\ ~proc[p].force /\ ~Configured
        /\ proc[p].ret = "true" /\ Post(p).email_status = "SENT"

\* ------------------------------------------------------ overlapping senders
\* the call of slot p has handed a message for certificate c to the transport,
\* with force off, and has not committed yet
Submitted(p, c) ==
    /\ proc[p].pc = "commit" /\ proc[p].exc = "ok"
    /\ proc[p].cid = c /\ ~proc[p].force

\* C28: two dispatchers that both pass the already-SENT check on the same
\* certificate before either commits can both submit it: a double send with
\* force off is reachable (C28_Witness), also between two bulk runs.  What the
\* check does exclude is a submission by a call that loaded the record SENT.
C28_OnlyOverlapSendsTwice ==
    \A p \in Procs :
        (proc[p].pc \in {"sending", "commit"} /\ ~proc[p].force)
        => Pre(p).email_status # "SENT"
\* two bulk runs of the same workshop have both submitted the same certificate
C28_Witness ==
    \E p, q \in Procs, c \in CertIds :
        /\ p # q
        /\ proc[p].op = "bulk" /\ proc[q].op = "bulk" /\ proc[p].wid = proc[q].wid
        /\ Submitted(p, c) /\ Submitted(q, c)

\* C29: in a bulk run a candidate whose attempt did not succeed is put in a
\* bucket by the record as re-read after the attempt: `skipped` when it is SENT
\* by then, `failed` when it is not (when the row is gone the re-read raises and
\* nothing is counted); `failed` is counted nowhere else
C29_ClassifiedByReRead ==
    [][\A p \in Procs :
         /\ (proc[p].pc = "classify" /\ proc'[p] # proc[p]) =>
               LET c == proc[p].cid IN
               IF ~Live(c) THEN proc'[p].pc = "done" /\ proc'[p].ret = "raise"
               ELSE IF cert[c].email_status = "SENT"
               THEN /\ proc'[p].skipped = proc[p].skipped + 1
                    /\ proc'[p].failed = proc[p].failed
               ELSE /\ proc'[p].failed = proc[p].failed + 1
                    /\ proc'[p].skipped = proc[p].skipped
         /\ proc'[p].failed > proc[p].failed => proc[p].pc = "classify"
      ]_vars
\* the first candidate of an unforced run was counted as skipped: its attempt
\* failed and another call had made it SENT before the re-read
C29_Witness ==
    \E p \in Procs :
        /\ proc[p].op = "bulk" /\ ~proc[p].force
        /\ proc[p].pc = "loop" /\ proc[p].k = 2
        /\ proc[p].skipped = 1 /\ proc[p].failed = 0 /\ proc[p].sent = 0
        /\ cert[proc[p].cands[1]].email_status = "SENT"

\* ------------------------------------------------- recovery after a crash
\* a call of generate_single_certificate on a record that is PENDING without
\* a path while its PNG is on storage, as a crash between the save and the
\* commit leaves it
Recovers(p) ==
    /\ GenDone(p) /\ Pre(p) # NoCert
    /\ Pre(p).status = "PENDING" /\ Pre(p).file_path = NoPath
    /\ proc[p].onDisk

\* C30: such a call is not skipped: nothing is returned without a render, the
\* render is made whenever the workshop and its template are found, and a
\* render that ends normally has saved certificates/<code>.png again and
\* leaves the record GENERATED with that path
C30_CrashedRenderIsRedone ==
    \A p \in Procs : Recovers(p) =>
        /\ proc[p].path # NoPath => proc[p].fetched = 1 /\ proc[p].wrote
        /\ (proc[p].wid # 0 /\ templates[proc[p].wid] # << >>)
             => proc[p].exc # "none" /\ proc[p].fetched = 1
        /\ proc[p].exc = "ok"
             => /\ proc[p].wrote
                /\ proc[p].path = RelPath(Code(proc[p].cid))
                /\ Post(p).status = "GENERATED"
                /\ Post(p).file_path = RelPath(Code(proc[p].cid))
                /\ Post(p).file_path \in files
C30_Witness ==
    \E p \in Procs :
        /\ Recovers(p) /\ proc[p].exc = "ok" /\ proc[p].wrote
        /\ Post(p).status = "GENERATED"

\* ------------------------------------------- the buckets of a bulk generation
\* a pass of the loop of generate_certificates_for_workshop that has counted
\* its certificate
CountsPass(p) == proc[p].pc = "gen_loop" /\ proc'[p].k = proc[p].k + 1
\* the certificate of the pass and the record the loop tests
PassCert(p) == proc[p].cands[proc[p].k]
PassView(p) == IF proc[p].expired THEN cert[PassCert(p)] ELSE proc[p].snap[PassCert(p)]
\* the pass has rendered: the PNG is saved (again) and the record is stored
\* GENERATED with its path, where before one of the two was missing
NewlyRendered(p) ==
    /\ ~AlreadyGenerated(PassView(p))
    /\ RelPath(Code(PassCert(p))) \in files'
    /\ cert'[PassCert(p)].status = "GENERATED"
    /\ cert'[PassCert(p)].file_path = RelPath(Code(PassCert(p)))
    /\ files' # files \/ cert' # cert

\* C31: every pass raises exactly one of the three counts by one: skipped
\* exactly when the record was GENERATED with its file present, generated
\* exactly when the pass rendered it (file saved, record stored), failed
\* exactly when neither: the lookup or the render failed and nothing changed.
C31_OneBucketPerCertificate ==
    [][\A p \in Procs : CountsPass(p) =>
          LET dg == proc'[p].generated - proc[p].generated
              ds == proc'[p].skipped - proc[p].skipped
              df == proc'[p].failed - proc[p].failed
          IN  /\ {dg, ds, df} \subseteq {0, 1} /\ dg + ds + df = 1
              /\ ds = 1 <=> AlreadyGenerated(PassView(p))
              /\ dg = 1 <=> NewlyRendered(p)
              /\ df = 1 <=> (~AlreadyGenerated(PassView(p)) /\ UNCHANGED <<cert, files>>)
              /\ ds = 1 => UNCHANGED <<cert, files>>]_vars
C31_Witness ==
    \E p \in Procs :
        /\ BulkGenEnded(p) /\ proc[p].ret # "raise"
        /\ proc[p].generated = 1 /\ proc[p].skipped = 1 /\ proc[p].total = 2

\* ------------------------------------------------- the template of a render
\* a call of generate_single_certificate that reached _render_certificate
Renders(p) == GenDone(p) /\ proc[p].tpl # NoTemplate
\* the rows of the workshop whose template the call took
RowsFound(p) == templates[proc[p].wid]

\* C32 as stated: a render for a certificate uses, of every workshop with the
\* certificate's workshop_name as title that has several templates, the one
\* created last.
C32_NewestTemplateOfItsWorkshop ==
    \A p \in Procs : Renders(p) =>
        \A w \in WorkshopsTitled(Pre(p).workshop_name) :
            Len(templates[w]) >= 2 => proc[p].tpl = templates[w][Len(templates[w])]

\* C32, what the code keeps: the render uses the template created last among
\* the templates of the workshop that its query by title returned.
C32_NewestTemplateOfWorkshopFound ==
    \A p \in Procs : Renders(p) =>
        /\ proc[p].wid \in WorkshopsTitled(Pre(p).workshop_name)
        /\ proc[p].tpl.event_id = proc[p].wid
        /\ proc[p].tpl = RowsFound(p)[Len(RowsFound(p))]
C32_Witness ==
    \E p \in Procs :
        /\ Renders(p) /\ Len(RowsFound(p)) >= 2
        /\ RowsFound(p)[1].image_url = "img2"
        /\ proc[p].tpl.image_url = "img1" /\ proc[p].exc = "ok"

\* C34: a pass of generate_certificates_for_workshop(w) that generates a
\* certificate has rendered it with the template of w that was created last.
C34_BulkUsesOwnTemplate ==
    [][\A p \in Procs :
          (CountsPass(p) /\ proc'[p].generated = proc[p].generated + 1)
          => /\ proc'[p].tpl.event_id = proc[p].wid
             /\ proc'[p].tpl = Template(proc[p].wid)]_vars

\* C35 as stated: a render uses the template of its workshop that was saved
\* last, be it created or updated by that save.
C35_SavedTemplateIsUsed ==
    \A p \in Procs : Renders(p) =>
        \A i \in DOMAIN RowsFound(p) :
            RowsFound(p)[i].updated_last => proc[p].tpl = RowsFound(p)[i]

\* a step of save_template on workshop w that wrote a row
Saves(w) == templates'[w] # templates[w] /\ Len(templates'[w]) >= Len(templates[w])
\* the row it wrote is the only one marked as updated last; when the step
\* created it, it is the last of the workshop's rows and the older rows keep
\* their order; when the step updated it, every row keeps its place and image
SavedInPlace(w) ==
    LET old == templates[w]
        new == templates'[w]
    IN  /\ \E i \in DOMAIN new :
              /\ new[i].updated_last
              /\ \A j \in DOMAIN new \ {i} : ~new[j].updated_last
              /\ Len(new) > Len(old) => i = Len(new)
        /\ \A j \in DOMAIN old : new[j].image_url = old[j].image_url
\* a render uses the template saved last when that is the one created last,
\* and the one created last otherwise
UsesSavedIfNewest(p) ==
    LET rows == RowsFound(p)
    IN  /\ rows[Len(rows)].updated_last => proc[p].tpl = rows[Len(rows)]
        /\ \A i \in DOMAIN rows :
              (rows[i].updated_last /\ i < Len(rows))
              => proc[p].tpl = rows[Len(rows)] /\ proc[p].tpl # rows[i]

\* C35: a save that creates a template makes it the newest of its workshop,
\* an update leaves the order of creation as it is, and a render that takes
\* a template of the workshop uses the saved one when it is the newest.
C35_SavedNewestIsUsed ==
    [][/\ \A w \in DOMAIN templates : Saves(w) => SavedInPlace(w)
       /\ \A p \in Procs : Renders(p)' => UsesSavedIfNewest(p)']_vars
C35_Witness ==
    \E p \in Procs :
        /\ Renders(p) /\ Len(RowsFound(p)) >= 2 /\ proc[p].exc = "ok"
        /\ proc[p].tpl.updated_last /\ proc[p].tpl.placeholders = "p2"
        /\ RowsFound(p)[1].placeholders = "p1"

\* ------------------------------------------------- submissions without force
\* the step in which the call of slot p hands its message to the transport
\* and the transport accepts it
Submits(p) ==
    /\ proc[p].pc = "sending" /\ proc'[p].pc = "commit" /\ proc'[p].exc = "ok"
\* the record has been SENT at some time: email_sent_at is set by the success
\* branch only and never cleared
SentOnce(c) == Live(c) /\ cert[c].email_sent_at # NoTime

\* C33 as stated: with force off in every call, a message is never submitted
\* for a certificate that has been submitted before.
C33_SubmittedAtMostOnce ==
    [][\A p \in Procs : Submits(p) => ~SentOnce(proc[p].cid)]_vars

\* C33: with force off in every call, no message is submitted for a record
\* that is SENT; a record leaves SENT only by a send call that finds its file
\* missing and marks it FAILED with "File not found"; a second submission is
\* made only for a record marked FAILED that way since.
C33_AtMostOnceWhileSent ==
    [][/\ \A p \in Procs : Submits(p) =>
             /\ cert[proc[p].cid].email_status # "SENT"
             /\ SentOnce(proc[p].cid) => cert[proc[p].cid].email_status = "FAILED"
       /\ \A c \in CertIds :
             (cert[c].email_status = "SENT" /\ cert'[c].email_status # "SENT")
             => /\ cert[c].file_path \notin files
                /\ cert'[c].email_status = "FAILED"
                /\ cert'[c].email_error.kind = "File not found"
                /\ cert'[c].email_sent_at = cert[c].email_sent_at]_vars
\* a second submission is under way
C33_Witness ==
    \E p \in Procs :
        /\ proc[p].pc = "commit" /\ proc[p].exc = "ok" /\ ~proc[p].force
        /\ SentOnce(proc[p].cid) /\ cert[proc[p].cid].email_status = "FAILED"

\* ------------------------------------------------- the sent count of a run
\* the step in which the bulk run of slot p stores the success of a message
\* that it handed to the transport itself
CommitsOwnSubmission(p) == proc[p].pc = "commit" /\ proc[p].exc = "ok"

\* C36: while a bulk run goes on, its sent count goes up by one in exactly
\* the steps in which it stores a submission of its own that the transport
\* accepted, and changes in no other step, whatever other dispatchers send
\* meanwhile: the count returned is the number of its own submissions.
C36_SentCountsOwnSubmissions ==
    [][\A p \in Procs :
          (proc[p].op = "bulk" /\ proc'[p].op = "bulk" /\ proc'[p].ret # "raise")
          => IF CommitsOwnSubmission(p) /\ proc'[p] # proc[p]
             THEN proc'[p].sent = proc[p].sent + 1
             ELSE proc'[p].sent = proc[p].sent]_vars
\* two runs of one workshop have returned and have counted more submissions
\* than there are certificates
C36_Witness ==
    \E p, q \in Procs :
        /\ p # q /\ BulkDone(p) /\ BulkDone(q) /\ proc[p].wid = proc[q].wid
        /\ proc[p].ret # "raise" /\ proc[q].ret # "raise"
        /\ proc[p].sent + proc[q].sent > NumCerts

\* ------------------------------------------------- error text and delivery state
\* C37: a record has an email_error exactly when its delivery state is FAILED.
C37_ErrorIffFailed ==
    \A c \in CertIds :
        Live(c) => (cert[c].email_error # NoError <=> cert[c].email_status = "FAILED")

\* ------------------------------------------------- the public lookups by code
\* a public lookup that was called with exactly the code of a stored row
LooksUpStored ==
    /\ codes.pc = "done" /\ codes.op \in {"verify", "download"}
    /\ codes.arg \in codes.stored

\* C38: a public lookup called with exactly the code of a stored certificate
\* finds that certificate.
C38_StoredCodeIsFound ==
    LooksUpStored => codes.ret = "found" /\ codes.found = codes.arg

\* C38, what the code keeps: the lookup finds the certificate when its stored
\* code has no lower-case letter, as every generated code.
NoLowerCase(s) == \A i \in DOMAIN s : s[i] # "a"
C38_UpperCaseCodeIsFound ==
    /\ (LooksUpStored /\ NoLowerCase(codes.arg))
          => codes.ret = "found" /\ codes.found = codes.arg
    /\ (codes.pc = "done" /\ codes.op = "create" /\ codes.arg = << >>
        /\ codes.ret = "created") => NoLowerCase(codes.found)
C38_Witness ==
    /\ LooksUpStored /\ codes.op = "download"
    /\ codes.arg = <<"A", "1">> /\ codes.found = <<"A", "1">>
    /\ <<"a", "1">> \in codes.stored

====
